---- MODULE Spec2Model ----
(***************************************************************************)
(* A model of the batch job orchestration engine of x-feed-digest:         *)
(* the splitting of the input rows (_chunk), the batch executor            *)
(* (fetch_all_tweets, _fetch_batch_with_retries, _fetch_single_batch,      *)
(* OpenAICompatibleClient.chat), the job pipeline (run_job), and the       *)
(* manual operations of the HTTP layer (_retry_batch, _aggregate_job).     *)
(*                                                                         *)
(* Persistence is the file store of core/storage.py: one job record, one   *)
(* status record and one output file per batch index, one merged output    *)
(* and one summary.  Every action holds at most one persistence write, so  *)
(* that every state in which the process could stop between two writes is  *)
(* a state of the model.                                                   *)
(***************************************************************************)
EXTENDS Integers, Sequences, FiniteSets, TLC

(***************************************************************************)
(* Bounds of the model                                                     *)
(***************************************************************************)
\* largest number of usable input rows of an upload
MaxUsers == 3
\* largest number of usable input rows of a job that manual operations work on
OpsMaxUsers == 2
\* largest batch size a request carries (at most max_batch_size)
MaxBatchSize == 2
\* batching.max_workers of the configuration
MaxWorkers == 2
\* retry.max_retries of the configuration (inner budget)
MaxRetries == 1
\* retry.batch_max_retries of the configuration (outer budget)
BatchMaxRetries == 1
\* number of manual operations (retry-batch, aggregate-now) requested
MaxManualOps == 2
\* number of subscriptions created
MaxSubs == 2
\* number of subscriptions whose trigger fires, and number of firings
MaxFiringSubs == 1
MaxFires == 2
\* half hours the clock advances
MaxTicks == 4
\* the most negative batch_size a create-job request carries
MaxNegativeSize == 2

(***************************************************************************)
(* Values                                                                  *)
(***************************************************************************)
\* a file of the store: absent, or present with its text
NoFile == [exists |-> FALSE, text |-> << >>]
File(text) == [exists |-> TRUE, text |-> text]
\* a count the record does not hold
Absent == 0 - 1

Min(a, b) == IF a < b THEN a ELSE b

\* ceil(r / b) for r >= 0 and b >= 1, stated independently of the code
CeilDiv(r, b) == CHOOSE k \in 0..r : k * b >= r /\ (k = 0 \/ (k - 1) * b < r)

(***************************************************************************)
(* Python helpers                                                          *)
(***************************************************************************)
\* range(0, n, step) of Python as a sequence, for n >= 0 and step # 0
PyRange0(n, step) ==
    IF step > 0
    THEN [k \in 1..((n + step - 1) \div step) |-> (k - 1) * step]
    ELSE << >>

\* items[lo : hi] of Python for 0 <= lo <= hi (hi is clamped to len(items))
PySlice(items, lo, hi) ==
    LET e == Min(hi, Len(items))
    IN  IF lo >= e THEN << >> ELSE [k \in 1..(e - lo) |-> items[lo + k]]

\* _chunk, with the slice end one short
ChunkShortSlice(items, size) ==
    LET starts == PyRange0(Len(items), size)
    IN  [k \in 1..Len(starts) |-> PySlice(items, starts[k], starts[k] + size - 1)]

\* batch_fetcher._chunk
Chunk(items, size) ==
    LET starts == PyRange0(Len(items), size)
    IN  [k \in 1..Len(starts) |-> PySlice(items, starts[k], starts[k] + size)]

\* a // b of Python (floor division) for b # 0
PyFloorDiv(a, b) == IF b > 0 THEN a \div b ELSE (0 - a) \div (0 - b)

\* total_batches = (total_users + size - 1) // size
TotalBatches(total_users, size) == PyFloorDiv(total_users + size - 1, size)

RECURSIVE Concat(_)
Concat(ss) == IF ss = << >> THEN << >> ELSE Head(ss) \o Concat(Tail(ss))

(***************************************************************************)
(* CSV text.  A text is the sequence of its lines; a line is the header    *)
(* (written unquoted by the empty case of _rows_to_csv and quoted by       *)
(* csv.DictWriter with QUOTE_ALL) or the line of one parsed row.           *)
(***************************************************************************)
HeaderPlain == [kind |-> "header_plain", row |-> 0]
HeaderQuoted == [kind |-> "header_quoted", row |-> 0]
DataLine(r) == [kind |-> "data", row |-> r]
IsHeader(l) == l.kind \in {"header_plain", "header_quoted"}
\* a row whose quoted text field holds an empty line is written on three
\* physical lines: the fields up to the empty line, the empty line, the rest
DataOpen(r) == [kind |-> "data_open", row |-> r]
BlankLine == [kind |-> "blank", row |-> 0]
DataClose(r) == [kind |-> "data_close", row |-> r]

\* the k-th row the external model reports for batch index i
Row(i, k) == 10 * (i + 1) + k

\* a line of the text of a response: one that holds the column marker
\* "username,", the line of a reported row, or any other line
MarkerLine == [kind |-> "marker", row |-> 0]
RowLine(r) == [kind |-> "row", row |-> r]
ProseLine == [kind |-> "prose", row |-> 0]

\* the body of a response: the text of each of its choices
Response(choices) == [choices |-> choices]

\* the bodies the endpoint answers with for batch index i: one without
\* choices, an empty text, a text of one line, a table of the header alone,
\* and an introduction followed by a table of two rows
Responses(i) ==
    { Response(<< >>),
      Response(<< << >> >>),
      Response(<< << ProseLine >> >>),
      Response(<< << MarkerLine >> >>),
      Response(<< << ProseLine, MarkerLine, RowLine(Row(i, 1)), RowLine(Row(i, 2)) >> >>) }

\* (resp.get("choices") or [{}])[0].get("message", {}).get("content", "")
ResponseContent(resp) ==
    IF resp.choices = << >> THEN << >> ELSE resp.choices[1]

\* csv.DictReader: the row read from a line under the first line as header;
\* only a row line under the marker line carries the expected fields
DictRow(header, line) ==
    IF header.kind = "marker" /\ line.kind = "row" THEN line.row ELSE 0

\* batch_fetcher._parse_csv_response: the lines from the first marker line on,
\* or all lines when there is none, read as a table whose first line is the
\* header
ParseCsvResponse(text) ==
    LET markers == { k \in 1..Len(text) : text[k].kind = "marker" }
        first == IF markers = {} THEN 1
                 ELSE CHOOSE k \in markers : \A j \in markers : k <= j
        csv_lines == SubSeq(text, first, Len(text))
    IN  IF Len(csv_lines) <= 1 THEN << >>
        ELSE [k \in 1..(Len(csv_lines) - 1) |-> DictRow(csv_lines[1], csv_lines[k + 1])]

\* the row lists _parse_csv_response can return for batch index i
RowChoices(i) == { ParseCsvResponse(ResponseContent(resp)) : resp \in Responses(i) }

\* the third row reported for a batch is one whose text holds an empty line
\* (csv.DictReader keeps the line breaks inside a quoted field)
HasBlankLine(r) == r % 10 = 3

\* writer.writerow: the physical lines of one row
RowLines(r) ==
    IF HasBlankLine(r) THEN << DataOpen(r), BlankLine, DataClose(r) >>
    ELSE << DataLine(r) >>

\* batch_fetcher._rows_to_csv
RowsToCsv(rows) ==
    IF rows = << >>
    THEN << HeaderPlain >>
    ELSE << HeaderQuoted >> \o Concat([k \in 1..Len(rows) |-> RowLines(rows[k])])

(***************************************************************************)
(* Records of the store                                                    *)
(***************************************************************************)
\* the error of a job record: what it says and the batch indices it lists
JobError(kind, missing) == [kind |-> kind, missing |-> missing]
NoError == JobError("none", << >>)

NoJob == [status |-> "absent", batch_size |-> 0, total_users |-> 0,
          completed_batches |-> 0, total_batches |-> 0,
          failed_batches |-> Absent, succeeded_batches |-> Absent,
          error |-> NoError]

\* error = None of a batch status record
NoBatchError == [kind |-> "none"]

NoRec == [status |-> "absent", attempts |-> 0, max_attempts |-> 0,
          error |-> NoBatchError]

\* the record fetch_all_tweets writes for every index before the pool starts
PendingRec == [status |-> "pending", attempts |-> 0,
               max_attempts |-> BatchMaxRetries + 1, error |-> NoBatchError]

\* the failure of one HTTP post, named by the call that met it: outer attempt a,
\* call u of _fetch_single_batch, post c of chat (all 0-based)
HttpError(a, u, c) == [kind |-> "http_error", attempt |-> a, u |-> u, c |-> c]
\* the RuntimeError of OpenAICompatibleClient.chat around its last failure
ChatError(e) == [kind |-> "chat_failed", cause |-> e]
\* the RuntimeError of _fetch_single_batch around the last failure of chat
GrokBatchError(ce) == [kind |-> "grok_batch_failed", cause |-> ce]

\* a subscription record (subscriptions/{sub_id}.json): absent, or the schedule,
\* the enabled flag and the status of the job triggered last
\* (last_job_id, next_run: 0 is None)
NoSub == [exists |-> FALSE, hour |-> 0, minute |-> 0, enabled |-> FALSE,
          last_status |-> "none", last_job_id |-> 0, last_error |-> "none",
          next_run |-> 0]
SubRecord(h, m, en) == [exists |-> TRUE, hour |-> h, minute |-> m, enabled |-> en,
                        last_status |-> "none", last_job_id |-> 0,
                        last_error |-> "none", next_run |-> 0]

\* CronTrigger(hour, minute) of a scheduler job
Trigger(h, m) == [hour |-> h, minute |-> m]

\* instants are counted in half hours; the half hour of the day of a time of day
DayTicks == 2 * 24
TickOfDay(h, m) == 2 * h + (m \div 30)
ClockStart == TickOfDay(7, 30)

\* CronTrigger.get_next_fire_time and Job.next_run_time: the first instant
\* after t at the time of day of the trigger
NextFireTime(trig, t) ==
    CHOOSE u \in (t + 1)..(t + DayTicks) : u % DayTicks = TickOfDay(trig.hour, trig.minute)

\* a run of a subscription (SubscriptionScheduler.run_now, routes.run_sub_now):
\* the id of its job, the sub dict its status callback holds, and the status of
\* the job record ("start": not written yet); active until run_job returns
NoSubJob == [active |-> FALSE, sub |-> NoSub, stage |-> "none", job_id |-> 0]

(***************************************************************************)
(* Identifiers                                                             *)
(***************************************************************************)
SubIds == 1..MaxSubs
FiringIds == 1..MaxFiringSubs
\* the largest number of batches of a job
MaxBatches == MaxUsers
BatchIdx == 0..(MaxBatches - 1)
OpIds == 1..MaxManualOps
\* runner i < MaxBatches is the pool's future of batch i; runner
\* MaxBatches + k - 1 is the batch loop of manual operation k
Runners == 0..(MaxBatches + MaxManualOps - 1)
OpRunner(k) == MaxBatches + k - 1

IdleRunner == [pc |-> "idle", idx |-> 0, attempt |-> 0, u |-> 0, c |-> 0,
               rows |-> << >>, exc |-> NoBatchError,
               fs |-> [status |-> "pending", attempts |-> 0,
                       max_attempts |-> BatchMaxRetries + 1,
                       error |-> NoBatchError]]

\* a manual operation: the request (kind, idx, summarize), the position and the
\* locals of its task, and (history) whether it ran its batch loop to the end,
\* the merged text it wrote, how its summarization went (no, ok, raised) and the
\* job status it wrote last
NoOp == [kind |-> "none", pc |-> "none", idx |-> 0, summarize |-> FALSE,
         status |-> NoJob, succ |-> {}, csv |-> << >>, ran |-> FALSE,
         sum |-> "no", final |-> "none"]

VARIABLES
    cRows,            \* SpecChunk: the input row list
    cSize,            \* SpecChunk: the batch size
    cBatches,         \* SpecChunk: the result of _chunk, or << >> before the split
    cTotal,           \* SpecChunk: total_batches of the job record, or -1
    backoff,          \* SpecBackoff: one retry loop, its configuration and its sleeps
    origin,           \* what dispatched the job: none, create, run_sub_now, schedule
    upload,           \* the usable rows of the job's input file (extract_users)
    args,             \* batch_size and total_users handed to run_job
    job,              \* the persisted job record ({job_id}.json)
    batchRec,         \* the persisted batch status records (batches/{i}.json)
    batchOut,         \* the persisted batch outputs (batches/{i}.csv)
    output,           \* the merged output (outputs/{job_id}.csv)
    summary,          \* the summary (summaries/{job_id}.txt), named by the text it sums up
    pc,               \* position of the pipeline (run_job / fetch_all_tweets)
    status,           \* the status dict of run_job
    batches,          \* batches of fetch_all_tweets
    initIdx,          \* loop index of the pending-record loop
    run,              \* the batch loops: _fetch_batch_with_retries per runner
    collected,        \* the futures as_completed has yielded, in completion order
    completed_count,  \* completed_count of fetch_all_tweets
    csv_text,         \* csv_text returned to run_job
    op,               \* the manual operations (_retry_batch, _aggregate_job)
    pipeHist,         \* history: job statuses written by dispatch and run_job
    pipeSummarized,   \* history: summarize_csv in run_job: no (not called), ok, raised
    sched,            \* the process and its scheduler: down, up
    subRec,           \* the persisted subscription records
    subCsv,           \* subscriptions/{sub_id}.csv exists
    triggers,         \* the scheduler jobs registered under sub_{sub_id}, per id
    subJob,           \* the runs of run_now that a trigger started
    subJobB,          \* the run-now runs started while a run of the subscription is active
    wanted,           \* history: the enabled flag the last request of a user set
    fires,            \* number of trigger firings and run-now requests: the job ids
    now               \* the clock, in half hours

chunkVars == << cRows, cSize, cBatches, cTotal, backoff >>
storeVars == << job, batchRec, batchOut, output, summary >>
pipeVars == << origin, upload, args, pc, status, batches, initIdx, collected,
               completed_count, csv_text, pipeHist, pipeSummarized >>
subVars == << sched, subRec, subCsv, triggers, subJob, subJobB, wanted, fires, now >>
vars == << cRows, cSize, cBatches, cTotal, backoff, origin, upload, args, job, batchRec,
           batchOut, output, summary, pc, status, batches, initIdx, run, collected,
           completed_count, csv_text, op, pipeHist, pipeSummarized, sched, subRec,
           subCsv, triggers, subJob, subJobB, wanted, fires, now >>

\* a history of statuses, consecutive repetitions written once
Logged(hist, st) ==
    IF hist # << >> /\ hist[Len(hist)] = st THEN hist ELSE Append(hist, st)

(***************************************************************************)
(* Initial state: an empty store, nothing dispatched                       *)
(***************************************************************************)
\* the process before its start on an empty store: no subscription
SubsIdle ==
    /\ sched = "down"
    /\ subRec = [id \in SubIds |-> NoSub]
    /\ subCsv = [id \in SubIds |-> FALSE]
    /\ triggers = [id \in SubIds |-> << >>]
    /\ subJob = [id \in SubIds |-> NoSubJob]
    /\ subJobB = [id \in SubIds |-> NoSubJob]
    /\ wanted = [id \in SubIds |-> FALSE]
    /\ fires = 0
    /\ now = ClockStart

MainInit ==
    /\ SubsIdle
    /\ origin = "none"
    /\ upload = << >>
    /\ args = [batch_size |-> 0, total_users |-> 0]
    /\ job = NoJob
    /\ batchRec = [i \in BatchIdx |-> NoRec]
    /\ batchOut = [i \in BatchIdx |-> NoFile]
    /\ output = NoFile
    /\ summary = NoFile
    /\ pc = "none"
    /\ status = NoJob
    /\ batches = << >>
    /\ initIdx = 0
    /\ run = [r \in Runners |-> IdleRunner]
    /\ collected = << >>
    /\ completed_count = 0
    /\ csv_text = << >>
    /\ op = [k \in OpIds |-> NoOp]
    /\ pipeHist = << >>
    /\ pipeSummarized = "no"

(***************************************************************************)
(* The split alone: any row list and batch size, the split of              *)
(* fetch_all_tweets and the total_batches of the job record                *)
(***************************************************************************)
\* longest row list and largest batch size of the split
ChunkMaxLen == 4
ChunkMaxSize == 3
RowValues == {"u", "v"}
RowLists == UNION { [1..n -> RowValues] : n \in 1..ChunkMaxLen }

\* no retry loop is looked at
NoBackoff == [loop |-> "none", base |-> 0, max |-> 0, retries |-> 0, attempt |-> 0,
              slept |-> << >>, pc |-> "none"]

ChunkInit ==
    /\ cRows \in RowLists
    /\ cSize \in 1..ChunkMaxSize
    /\ cBatches = << >>
    /\ cTotal = -1
    /\ backoff = NoBackoff

\* fetch_all_tweets, line 249: batches = _chunk(user_rows, batch_size)
ChunkSplit ==
    /\ cBatches = << >>
    /\ cBatches' = Chunk(cRows, cSize)
    /\ UNCHANGED << cRows, cSize, cTotal, backoff, subVars, storeVars, pipeVars, run, op >>

\* create_job, line 212 (and run_job, line 34): total_batches of the job record
ChunkCount ==
    /\ cTotal = -1
    /\ cTotal' = TotalBatches(Len(cRows), cSize)
    /\ UNCHANGED << cRows, cSize, cBatches, backoff, subVars, storeVars, pipeVars, run, op >>

ChunkNext == ChunkSplit \/ ChunkCount

ChunkIdle ==
    /\ cRows = << >>
    /\ cSize = 1
    /\ cBatches = << >>
    /\ cTotal = -1
    /\ backoff = NoBackoff

Init == MainInit /\ ChunkIdle

(***************************************************************************)
(* The retry loops alone: the loop of OpenAICompatibleClient.chat ("chat"), *)
(* of _fetch_single_batch ("inner") and of _fetch_batch_with_retries        *)
(* ("outer"), each with any configuration, every attempt failing or the     *)
(* loop returning.  Durations are counted in half seconds.                  *)
(***************************************************************************)
BackoffMaxRetries == 3
BackoffMaxBase == 3
BackoffMaxCap == 5
RetryLoops == {"chat", "inner", "outer"}

\* min(backoff_base * (2**attempt), backoff_max)
BackoffSleep(base, max, attempt) == Min(base * (2 ^ attempt), max)

\* OpenAICompatibleClient.chat, line 89: 0.5 * (2**attempt)
ChatSleep(attempt) == 2 ^ attempt

\* the number of seconds the loop sleeps after the failure of attempt
SleepOf(b) ==
    IF b.loop = "chat" THEN ChatSleep(b.attempt)
    ELSE BackoffSleep(b.base, b.max, b.attempt)

BackoffStart ==
    /\ MainInit
    /\ cRows = << >> /\ cSize = 1 /\ cBatches = << >> /\ cTotal = -1
    /\ \E l \in RetryLoops, base \in 1..BackoffMaxBase, max \in 1..BackoffMaxCap,
          n \in 0..BackoffMaxRetries :
          backoff = [loop |-> l, base |-> base, max |-> max, retries |-> n,
                     attempt |-> 0, slept |-> << >>, pc |-> "try"]

\* an attempt fails: the loop sleeps and goes on unless the attempt was the last
BackoffFail ==
    /\ backoff.pc = "try"
    /\ backoff' = IF backoff.attempt >= backoff.retries
                  THEN [backoff EXCEPT !.pc = "failed"]
                  ELSE [backoff EXCEPT !.slept = Append(@, SleepOf(backoff)),
                                       !.attempt = @ + 1]
    /\ UNCHANGED << cRows, cSize, cBatches, cTotal, subVars, storeVars, pipeVars, run, op >>

\* an attempt succeeds: the loop returns
BackoffReturn ==
    /\ backoff.pc = "try"
    /\ backoff' = [backoff EXCEPT !.pc = "returned"]
    /\ UNCHANGED << cRows, cSize, cBatches, cTotal, subVars, storeVars, pipeVars, run, op >>

BackoffNext == BackoffFail \/ BackoffReturn

SpecBackoff == BackoffStart /\ [][BackoffNext]_vars

(***************************************************************************)
(* Dispatch                                                                *)
(***************************************************************************)
\* the job record create_job and run_sub_now write
QueuedRecord(size, total_users) ==
    [status |-> "queued", batch_size |-> size, total_users |-> total_users,
     completed_batches |-> 0, total_batches |-> TotalBatches(total_users, size),
     failed_batches |-> Absent, succeeded_batches |-> Absent, error |-> NoError]

\* routes.create_job: an upload with n usable rows and an accepted batch size
CreateJob(n, size) ==
    /\ origin = "none"
    /\    /\ upload' = [k \in 1..n |-> k]
          /\ args' = [batch_size |-> size, total_users |-> n]
          /\ job' = QueuedRecord(size, n)
    /\ origin' = "create"
    /\ pc' = "queued"
    /\ pipeHist' = Logged(pipeHist, "queued")
    /\ UNCHANGED << chunkVars, subVars, batchRec, batchOut, output, summary, status, batches,
                    initIdx, run, collected, completed_count, csv_text, op,
                    pipeSummarized >>

\* routes.run_sub_now: the subscription's stored input, default_batch_size
RunSubNow(n, size) ==
    /\ origin = "none"
    /\    /\ upload' = [k \in 1..n |-> k]
          /\ args' = [batch_size |-> size, total_users |-> n]
          /\ job' = QueuedRecord(size, n)
    /\ origin' = "run_sub_now"
    /\ pc' = "queued"
    /\ pipeHist' = Logged(pipeHist, "queued")
    /\ UNCHANGED << chunkVars, subVars, batchRec, batchOut, output, summary, status, batches,
                    initIdx, run, collected, completed_count, csv_text, op,
                    pipeSummarized >>

\* SubscriptionScheduler.run_now (a schedule firing): run_job is called at once,
\* no job record is written first
ScheduleFire(n, size) ==
    /\ origin = "none"
    /\    /\ upload' = [k \in 1..n |-> k]
          /\ args' = [batch_size |-> size, total_users |-> n]
    /\ origin' = "schedule"
    /\ pc' = "queued"
    /\ UNCHANGED << chunkVars, subVars, storeVars, status, batches, initIdx, run, collected,
                    completed_count, csv_text, op, pipeHist, pipeSummarized >>

(***************************************************************************)
(* run_job and fetch_all_tweets up to the pool                             *)
(***************************************************************************)
\* job_runner.run_job, lines 34-47
RunJobStart ==
    /\ pc = "queued"
    /\ status' = [status |-> "running", batch_size |-> args.batch_size,
                  total_users |-> args.total_users, completed_batches |-> 0,
                  total_batches |-> TotalBatches(args.total_users, args.batch_size),
                  failed_batches |-> Absent, succeeded_batches |-> Absent,
                  error |-> NoError]
    /\ job' = status'
    /\ pipeHist' = Logged(pipeHist, "running")
    /\ pc' = "split"
    /\ UNCHANGED << chunkVars, subVars, origin, upload, args, batchRec, batchOut, output,
                    summary, batches, initIdx, run, collected, completed_count,
                    csv_text, op, pipeSummarized >>

\* fetch_all_tweets, lines 248-262
FetchAllSplit ==
    /\ pc = "split"
    /\ batches' = Chunk(upload, args.batch_size)
    /\ initIdx' = 0
    /\ pc' = "pending"
    /\ UNCHANGED << chunkVars, subVars, storeVars, origin, upload, args, status, run,
                    collected, completed_count, csv_text, op, pipeHist,
                    pipeSummarized >>

\* fetch_all_tweets, lines 264-281: one pending record per index
PendingWrite ==
    /\ pc = "pending"
    /\ initIdx < Len(batches)
    /\ batchRec' = [batchRec EXCEPT ![initIdx] = PendingRec]
    /\ initIdx' = initIdx + 1
    /\ UNCHANGED << chunkVars, subVars, job, batchOut, output, summary, origin, upload, args,
                    pc, status, batches, run, collected, completed_count, csv_text,
                    op, pipeHist, pipeSummarized >>

\* fetch_all_tweets, lines 283-300: every batch is submitted to the pool
Submit ==
    /\ pc = "pending"
    /\ initIdx = Len(batches)
    /\ run' = [r \in Runners |->
                 IF r < Len(batches)
                 THEN [IdleRunner EXCEPT !.pc = "queued", !.idx = r]
                 ELSE run[r]]
    /\ pc' = "pool"
    /\ UNCHANGED << chunkVars, subVars, storeVars, origin, upload, args, status, batches,
                    initIdx, collected, completed_count, csv_text, op, pipeHist,
                    pipeSummarized >>

(***************************************************************************)
(* _fetch_batch_with_retries, for the pool's futures and for retry-batch   *)
(***************************************************************************)
\* The locals of a function that has returned are gone: a step that returns from
\* a function puts its locals back to their initial values.
loopFrame == << chunkVars, subVars, job, output, summary, pipeVars, op >>

\* max_attempts, one short
MaxAttemptsShort == BatchMaxRetries

\* max_attempts = batch_max_retries + 1
MaxAttempts == BatchMaxRetries + 1

\* the positions of a batch loop between its start and its return
InLoop(r) == run[r].pc \in {"attempt", "call", "ok", "save", "fail"}

\* an attempt that begins without writing its running record
BatchAttemptBeginUnsaved(r) ==
    /\ run[r].pc = "attempt"
    /\ run' = [run EXCEPT ![r] =
                 [@ EXCEPT !.fs = [@ EXCEPT !.attempts = run[r].attempt + 1,
                                            !.status = "running",
                                            !.error = NoBatchError],
                           !.pc = "call", !.u = 0, !.c = 0]]
    /\ UNCHANGED << loopFrame, batchRec, batchOut >>

\* lines 170-174: the running record of the attempt is written
BatchAttemptBegin(r) ==
    /\ run[r].pc = "attempt"
    /\ LET fs2 == [run[r].fs EXCEPT !.attempts = run[r].attempt + 1,
                                    !.status = "running", !.error = NoBatchError]
       IN  /\ run' = [run EXCEPT ![r] = [@ EXCEPT !.fs = fs2, !.pc = "call",
                                                  !.u = 0, !.c = 0]]
           /\ batchRec' = [batchRec EXCEPT ![run[r].idx] = fs2]
    /\ UNCHANGED << loopFrame, batchOut >>

\* a unit runner that takes an answer without rows for a failure of the batch
HttpPostReturnsOrRaises(r, resp) ==
    /\ run[r].pc = "call"
    /\ LET rows == ParseCsvResponse(ResponseContent(resp))
       IN  run' = [run EXCEPT ![r] =
                     IF rows = << >>
                     THEN [@ EXCEPT !.exc = GrokBatchError(ChatError(
                                              HttpError(run[r].attempt, run[r].u, run[r].c))),
                                    !.u = 0, !.c = 0, !.pc = "fail"]
                     ELSE [@ EXCEPT !.rows = rows, !.u = 0, !.c = 0, !.pc = "ok"]]
    /\ UNCHANGED << loopFrame, batchRec, batchOut >>

\* lines 86-93: chat returned the body resp; the content of its first choice
\* is parsed and the rows are returned
HttpPostReturns(r, resp) ==
    /\ run[r].pc = "call"
    /\ run' = [run EXCEPT ![r] =
                 [@ EXCEPT !.rows = ParseCsvResponse(ResponseContent(resp)),
                           !.u = 0, !.c = 0, !.pc = "ok"]]
    /\ UNCHANGED << loopFrame, batchRec, batchOut >>

\* one HTTP post of OpenAICompatibleClient.chat answers: _fetch_single_batch
\* parses the content and returns the rows
HttpPostOk(r) ==
    \E resp \in Responses(run[r].idx) : HttpPostReturns(r, resp)

\* one HTTP post fails: chat retries it while attempt < max_retries, then
\* raises; _fetch_single_batch calls chat again while attempt < max_retries, then
\* raises the failure of the batch
HttpPostFail(r) ==
    /\ run[r].pc = "call"
    /\ LET e == HttpError(run[r].attempt, run[r].u, run[r].c)
       IN  run' = [run EXCEPT ![r] =
                     IF @.c < MaxRetries
                     THEN [@ EXCEPT !.c = @ + 1]
                     ELSE IF @.u < MaxRetries
                     THEN [@ EXCEPT !.u = @ + 1, !.c = 0]
                     ELSE [@ EXCEPT !.exc = GrokBatchError(ChatError(e)),
                                    !.u = 0, !.c = 0, !.pc = "fail"]]
    /\ UNCHANGED << loopFrame, batchRec, batchOut >>

\* a loop that writes succeeded and goes on to its next attempt
WriteSucceededNoReturn(r) ==
    /\ run[r].pc = "ok"
    /\ LET fs2 == [run[r].fs EXCEPT !.status = "succeeded"]
       IN  /\ run' = [run EXCEPT ![r] =
                        IF @.attempt + 1 < MaxAttempts
                        THEN [@ EXCEPT !.fs = fs2, !.attempt = @ + 1, !.pc = "attempt"]
                        ELSE [@ EXCEPT !.fs = fs2, !.pc = "save"]]
           /\ batchRec' = [batchRec EXCEPT ![run[r].idx] = fs2]
    /\ UNCHANGED << loopFrame, batchOut >>

\* lines 186-188: the succeeded record is written
WriteSucceeded(r) ==
    /\ run[r].pc = "ok"
    /\ LET fs2 == [run[r].fs EXCEPT !.status = "succeeded"]
       IN  /\ run' = [run EXCEPT ![r] = [@ EXCEPT !.fs = fs2, !.pc = "save"]]
           /\ batchRec' = [batchRec EXCEPT ![run[r].idx] = fs2]
    /\ UNCHANGED << loopFrame, batchOut >>

\* lines 189-191: the output of the batch is saved and the loop returns
SaveOutput(r) ==
    /\ run[r].pc = "save"
    /\ batchOut' = [batchOut EXCEPT ![run[r].idx] = File(RowsToCsv(run[r].rows))]
    /\ run' = [run EXCEPT ![r] = [@ EXCEPT !.attempt = 0, !.pc = "done"]]
    /\ UNCHANGED << loopFrame, batchRec >>

\* an outer loop that never gives up
WriteFailedForever(r) ==
    /\ run[r].pc = "fail"
    /\ LET fs2 == [run[r].fs EXCEPT !.status = "failed", !.error = run[r].exc]
       IN  /\ run' = [run EXCEPT ![r] =
                        [@ EXCEPT !.fs = fs2, !.exc = NoBatchError, !.pc = "attempt"]]
           /\ batchRec' = [batchRec EXCEPT ![run[r].idx] = fs2]
    /\ UNCHANGED << loopFrame, batchOut >>

\* lines 192-202: the failed record is written; the loop goes on while attempts
\* are left and returns no rows after the last
WriteFailed(r) ==
    /\ run[r].pc = "fail"
    /\ LET fs2 == [run[r].fs EXCEPT !.status = "failed", !.error = run[r].exc]
       IN  /\ run' = [run EXCEPT ![r] =
                        IF @.attempt + 1 < MaxAttempts
                        THEN [@ EXCEPT !.fs = fs2, !.attempt = @ + 1,
                                       !.exc = NoBatchError, !.pc = "attempt"]
                        ELSE [@ EXCEPT !.fs = fs2, !.rows = << >>, !.attempt = 0,
                                       !.exc = NoBatchError, !.pc = "done"]]
           /\ batchRec' = [batchRec EXCEPT ![run[r].idx] = fs2]
    /\ UNCHANGED << loopFrame, batchOut >>

(***************************************************************************)
(* The pool of fetch_all_tweets                                            *)
(***************************************************************************)
Futures == { r \in Runners : r < Len(batches) }

\* a pool that starts a thread for every submitted task
AlwaysFreeWorker == TRUE

\* ThreadPoolExecutor(max_workers): a queued task starts when a worker is free
PoolHasFreeWorker == Cardinality({ r \in Futures : InLoop(r) }) < MaxWorkers

\* workers that take no task while the progress callback runs
StartBatchAfterCallback(i) ==
    /\ pc = "pool"
    /\ i \in Futures
    /\ run[i].pc = "queued"
    /\ \A j \in Futures : j < i => run[j].pc # "queued"
    /\ PoolHasFreeWorker
    /\ run' = [run EXCEPT ![i] = [@ EXCEPT !.pc = "attempt", !.attempt = 0]]
    /\ UNCHANGED << loopFrame, batchRec, batchOut >>

\* a worker takes the oldest queued task and enters _fetch_batch_with_retries,
\* whatever the thread of fetch_all_tweets is doing
StartBatch(i) ==
    /\ pc \in {"pool", "callback"}
    /\ i \in Futures
    /\ run[i].pc = "queued"
    /\ \A j \in Futures : j < i => run[j].pc # "queued"
    /\ PoolHasFreeWorker
    /\ run' = [run EXCEPT ![i] = [@ EXCEPT !.pc = "attempt", !.attempt = 0]]
    /\ UNCHANGED << loopFrame, batchRec, batchOut >>

IsCollected(i) == \E k \in 1..Len(collected) : collected[k] = i

\* lines 303-329 with the count raised once per finished or running batch loop
CollectEarly(i) ==
    /\ pc = "pool"
    /\ i \in Futures
    /\ run[i].pc \in {"done", "save", "fail"}
    /\ completed_count < Len(batches) + 1
    /\ collected' = IF run[i].pc = "done" /\ ~IsCollected(i)
                    THEN Append(collected, i) ELSE collected
    /\ completed_count' = completed_count + 1
    /\ status' = [status EXCEPT !.completed_batches = completed_count']
    /\ job' = status'
    /\ pipeHist' = Logged(pipeHist, status'.status)
    /\ UNCHANGED << chunkVars, subVars, batchRec, batchOut, output, summary, origin, upload,
                    args, pc, batches, initIdx, run, csv_text, op, pipeSummarized >>

\* lines 303-329: as_completed yields a finished future; the count is raised
\* and run_job.on_batch_complete writes the job record
Collect(i) ==
    /\ pc = "pool"
    /\ i \in Futures
    /\ run[i].pc = "done"
    /\ ~IsCollected(i)
    /\ collected' = Append(collected, i)
    /\ completed_count' = completed_count + 1
    /\ status' = [status EXCEPT !.completed_batches = completed_count']
    /\ job' = status'
    /\ pipeHist' = Logged(pipeHist, status'.status)
    /\ UNCHANGED << chunkVars, subVars, batchRec, batchOut, output, summary, origin, upload,
                    args, pc, batches, initIdx, run, csv_text, op, pipeSummarized >>

\* lines 308-327 in two steps.  First as_completed yields the future, the lock
\* is taken and completed_count incremented
CollectLocked(i) ==
    /\ pc = "pool"
    /\ i \in Futures
    /\ run[i].pc = "done"
    /\ ~IsCollected(i)
    /\ collected' = Append(collected, i)
    /\ completed_count' = completed_count + 1
    /\ pc' = "callback"
    /\ UNCHANGED << chunkVars, subVars, storeVars, origin, upload, args, status, batches,
                    initIdx, run, csv_text, op, pipeHist, pipeSummarized >>

\* lines 328-329, then on_batch_complete does its writes and returns, and the
\* lock is released
CallbackReturn ==
    /\ pc = "callback"
    /\ status' = [status EXCEPT !.completed_batches = completed_count]
    /\ job' = status'
    /\ pipeHist' = Logged(pipeHist, status'.status)
    /\ pc' = "pool"
    /\ UNCHANGED << chunkVars, subVars, batchRec, batchOut, output, summary, origin, upload,
                    args, batches, initIdx, run, collected, completed_count, csv_text,
                    op, pipeSummarized >>

\* results.get(i, []): the rows of a future whose status is succeeded
Results(i) == IF run[i].fs.status = "succeeded" THEN run[i].rows ELSE << >>

\* lines 331-332, iterating the futures in completion order instead
MergedRowsCompletionOrder ==
    Concat([k \in 1..Len(collected) |-> Results(collected[k])])

\* lines 331-332: all_rows, by ascending index
MergedRows == Concat([k \in 1..Len(batches) |-> Results(k - 1)])

\* lines 331-338: the pool is drained and the merged text returned
ExecutorReturn ==
    /\ pc = "pool"
    /\ Len(collected) = Len(batches)
    /\ csv_text' = RowsToCsv(MergedRows)
    /\ pc' = "finish"
    /\ UNCHANGED << chunkVars, subVars, storeVars, origin, upload, args, status, batches,
                    initIdx, run, collected, completed_count, op, pipeHist,
                    pipeSummarized >>

(***************************************************************************)
(* run_job after the executor                                              *)
(***************************************************************************)
\* lines 64-65: the counts over the returned batch_statuses
ReturnedFailed == Cardinality({ i \in Futures : run[i].fs.status = "failed" })
ReturnedSucceeded == Cardinality({ i \in Futures : run[i].fs.status = "succeeded" })

\* line 69, with the test dropped
AnyFailedIgnored == FALSE

\* line 69: failed_batches > 0
AnyFailed == ReturnedFailed > 0

\* lines 62-77: the job fails on a failed batch, else the merged output is saved
RunJobCount ==
    /\ pc = "finish"
    /\ LET counted == [status EXCEPT !.failed_batches = ReturnedFailed,
                                     !.succeeded_batches = ReturnedSucceeded]
       IN  IF AnyFailed
           THEN /\ status' = [counted EXCEPT
                                !.status = "failed",
                                !.error = JobError("batches_failed", << >>)]
                /\ job' = status'
                /\ pipeHist' = Logged(pipeHist, "failed")
                /\ pc' = "end"
                /\ UNCHANGED output
           ELSE /\ status' = counted
                /\ output' = File(csv_text)
                /\ pc' = "summarizing"
                /\ UNCHANGED << job, pipeHist >>
    /\ UNCHANGED << chunkVars, subVars, batchRec, batchOut, summary, origin, upload, args,
                    batches, initIdx, run, collected, completed_count, csv_text, op,
                    pipeSummarized >>

\* lines 79-82, without the write of the summarizing status
RunJobSummarizingSkipped ==
    /\ pc = "summarizing"
    /\ pc' = "summarize"
    /\ UNCHANGED << chunkVars, subVars, storeVars, origin, upload, args, status, batches,
                    initIdx, run, collected, completed_count, csv_text, op, pipeHist,
                    pipeSummarized >>

\* lines 79-82
RunJobSummarizing ==
    /\ pc = "summarizing"
    /\ status' = [status EXCEPT !.status = "summarizing"]
    /\ job' = status'
    /\ pipeHist' = Logged(pipeHist, "summarizing")
    /\ pc' = "summarize"
    /\ UNCHANGED << chunkVars, subVars, batchRec, batchOut, output, summary, origin, upload,
                    args, batches, initIdx, run, collected, completed_count,
                    csv_text, op, pipeSummarized >>

\* lines 84-85: summarize_csv returns and the summary is saved
RunJobSummarizeOk ==
    /\ pc = "summarize"
    /\ summary' = File(csv_text)
    /\ pipeSummarized' = "ok"
    /\ pc' = "done_write"
    /\ UNCHANGED << chunkVars, subVars, job, batchRec, batchOut, output, origin, upload, args,
                    status, batches, initIdx, run, collected, completed_count,
                    csv_text, op, pipeHist >>

\* summarize_csv raises and run_job ends without a write
RunJobSummarizeRaiseSilent ==
    /\ pc = "summarize"
    /\ pipeSummarized' = "raised"
    /\ pc' = "end"
    /\ UNCHANGED << chunkVars, subVars, storeVars, status, origin, upload, args, batches,
                    initIdx, run, collected, completed_count, csv_text, op, pipeHist >>

\* lines 84, 94-100: summarize_csv raises
RunJobSummarizeRaise ==
    /\ pc = "summarize"
    /\ pipeSummarized' = "raised"
    /\ status' = [status EXCEPT !.status = "failed",
                                !.error = JobError("summarize_raised", << >>)]
    /\ job' = status'
    /\ pipeHist' = Logged(pipeHist, "failed")
    /\ pc' = "end"
    /\ UNCHANGED << chunkVars, subVars, batchRec, batchOut, output, summary, origin, upload,
                    args, batches, initIdx, run, collected, completed_count,
                    csv_text, op >>

\* lines 87-92
RunJobDone ==
    /\ pc = "done_write"
    /\ status' = [status EXCEPT !.status = "done"]
    /\ job' = status'
    /\ pipeHist' = Logged(pipeHist, "done")
    /\ pc' = "end"
    /\ UNCHANGED << chunkVars, subVars, batchRec, batchOut, output, summary, origin, upload,
                    args, batches, initIdx, run, collected, completed_count,
                    csv_text, op, pipeSummarized >>

\* the steps of a dispatched job
PipelineSteps ==
    \/ RunJobStart
    \/ FetchAllSplit
    \/ PendingWrite
    \/ Submit
    \/ \E i \in BatchIdx : StartBatch(i)
    \/ \E i \in BatchIdx : Collect(i)
    \/ ExecutorReturn
    \/ RunJobCount
    \/ RunJobSummarizing
    \/ RunJobSummarizeOk
    \/ RunJobSummarizeRaise
    \/ RunJobDone

LoopNext ==
    \E r \in Runners :
        \/ BatchAttemptBegin(r)
        \/ HttpPostOk(r)
        \/ HttpPostFail(r)
        \/ WriteSucceeded(r)
        \/ SaveOutput(r)
        \/ WriteFailed(r)

\* one job of up to MaxUsers rows, dispatched in any of the three ways and run
\* by the pipeline alone
PipelineNext ==
    \/ \E n \in 1..MaxUsers, size \in 1..MaxBatchSize : CreateJob(n, size)
    \/ \E n \in 1..MaxUsers, size \in 1..MaxBatchSize : RunSubNow(n, size)
    \/ \E n \in 1..MaxUsers, size \in 1..MaxBatchSize : ScheduleFire(n, size)
    \/ PipelineSteps
    \/ LoopNext

SpecPipeline == Init /\ [][PipelineNext]_vars

\* one uploaded job run by the pipeline, the progress callback taking its time
CallbackNext ==
    \/ \E n \in 1..MaxUsers, size \in 1..MaxBatchSize : CreateJob(n, size)
    \/ RunJobStart
    \/ FetchAllSplit
    \/ PendingWrite
    \/ Submit
    \/ \E i \in BatchIdx : StartBatch(i)
    \/ \E i \in BatchIdx : CollectLocked(i)
    \/ CallbackReturn
    \/ ExecutorReturn
    \/ RunJobCount
    \/ RunJobSummarizing
    \/ RunJobSummarizeOk
    \/ RunJobSummarizeRaise
    \/ RunJobDone
    \/ LoopNext

SpecCallback == Init /\ [][CallbackNext]_vars

\* the steps of the batch loop of runner r
RunnerSteps(r) ==
    \/ BatchAttemptBegin(r)
    \/ HttpPostOk(r)
    \/ HttpPostFail(r)
    \/ WriteSucceeded(r)
    \/ SaveOutput(r)
    \/ WriteFailed(r)

\* the thread of run_job goes on while it has a step to do, and so does every
\* worker thread: each call of the endpoint and of summarize_csv returns or
\* raises, each sleep ends
PipelineFair ==
    /\ WF_vars(PipelineSteps)
    /\ \A r \in Runners : WF_vars(RunnerSteps(r))

SpecPipelineLive == Init /\ [][PipelineNext]_vars /\ PipelineFair

\* an input file: whether its header has a handle, username or screen_name
\* column, and the stripped value of that column in each row
Handles == {"", "u"}
InputFiles ==
    [has_column : BOOLEAN,
     rows : UNION { [1..n -> Handles] : n \in 0..MaxUsers }]

\* extract_users that returns an empty list for a file without users
ExtractUsersNoCheck(f) ==
    IF ~f.has_column THEN [raised |-> "missing_column", handles |-> << >>]
    ELSE [raised |-> "none", handles |-> SelectSeq(f.rows, LAMBDA h : h # "")]

\* csv_parser.extract_users: the handles of the rows that have one, or ValueError
ExtractUsers(f) ==
    IF ~f.has_column THEN [raised |-> "missing_column", handles |-> << >>]
    ELSE LET handles == SelectSeq(f.rows, LAMBDA h : h # "")
         IN  IF handles = << >>
             THEN [raised |-> "no_users", handles |-> << >>]
             ELSE [raised |-> "none", handles |-> handles]

\* the request is answered 400 (create_job, run_sub_now), or run_now returns
\* None after it has saved the failure in the subscription record
Rejected(o) ==
    /\ origin = "none"
    /\ origin' = o
    /\ pc' = "rejected"
    /\ UNCHANGED << chunkVars, subVars, storeVars, upload, args, status, batches,
                    initIdx, run, collected, completed_count, csv_text, op,
                    pipeHist, pipeSummarized >>

\* routes.create_job on the uploaded file f
CreateJobFrom(f, size) ==
    IF ExtractUsers(f).raised = "none"
    THEN CreateJob(Len(ExtractUsers(f).handles), size)
    ELSE Rejected("create")

\* routes.run_sub_now on the stored input f of the subscription
RunSubNowFrom(f, size) ==
    IF ExtractUsers(f).raised = "none"
    THEN RunSubNow(Len(ExtractUsers(f).handles), size)
    ELSE Rejected("run_sub_now")

\* SubscriptionScheduler.run_now on the stored input f of the subscription
ScheduleFireFrom(f, size) ==
    IF ExtractUsers(f).raised = "none"
    THEN ScheduleFire(Len(ExtractUsers(f).handles), size)
    ELSE Rejected("schedule")

\* one job dispatched in any of the three ways on any input file, and run by
\* the pipeline alone
IntakeNext ==
    \/ \E f \in InputFiles, size \in 1..MaxBatchSize : CreateJobFrom(f, size)
    \/ \E f \in InputFiles, size \in 1..MaxBatchSize : RunSubNowFrom(f, size)
    \/ \E f \in InputFiles, size \in 1..MaxBatchSize : ScheduleFireFrom(f, size)
    \/ PipelineSteps
    \/ LoopNext

SpecIntake == Init /\ [][IntakeNext]_vars

\* the batch_size a create-job request can carry: any integer, or none (None
\* and 0 are both taken for the default by `batch_size or default_size`, and are
\* written 0 here)
RequestSizes == (0 - MaxNegativeSize)..(MaxBatchSize + 1)

\* routes.create_job, lines 188-216, on an upload with n usable rows, with
\* max_batch_size = MaxBatchSize
CreateJobRequest(n, batch_size, default_size) ==
    LET size == IF batch_size = 0 THEN default_size ELSE batch_size
    IN  IF size > MaxBatchSize THEN Rejected("create") ELSE CreateJob(n, size)

\* one create-job request with any batch_size, and the job run by the pipeline
SizesNext ==
    \/ \E n \in 1..MaxUsers, batch_size \in RequestSizes,
          default_size \in 1..MaxBatchSize : CreateJobRequest(n, batch_size, default_size)
    \/ PipelineSteps
    \/ LoopNext

SpecSizes == Init /\ [][SizesNext]_vars

\* the store is idle while the split is checked on every bounded input
ChunkStart == MainInit /\ ChunkInit

SpecChunk == ChunkStart /\ [][ChunkNext]_vars

(***************************************************************************)
(* Manual operations of the HTTP layer.  Operation k is requested once.    *)
(***************************************************************************)
opFrame == << chunkVars, subVars, pipeVars >>

\* operation k after its task has returned
Ended(k) == [NoOp EXCEPT !.kind = op[k].kind, !.idx = op[k].idx,
                         !.summarize = op[k].summarize, !.ran = op[k].ran,
                         !.csv = op[k].csv, !.sum = op[k].sum,
                         !.final = op[k].final, !.pc = "end"]

\* operation k after its task has written job status st last and returned
EndedWith(k, st) == [Ended(k) EXCEPT !.final = st]

\* an operation slot is free, and the slots are taken in order
CanRequest(k) ==
    /\ op[k].kind = "none"
    /\ k > 1 => op[k - 1].kind # "none"

\* uploads/{job_id}.csv exists: save_upload is called by create_job only; the
\* input of a subscription's job stays at subscriptions/{sub_id}.csv
UploadExists == origin = "create"

\* list_batch_statuses: the records that exist
ListBatchStatuses == { i \in BatchIdx : batchRec[i].status # "absent" }
CountStatus(st) == Cardinality({ i \in ListBatchStatuses : batchRec[i].status = st })

\* the batch indices a retry-batch request can carry
RetryIdx == (0 - 1)..MaxBatches

\* the range test of retry_job_batch without its lower end
OutOfRangeAbove(i, rec) == i >= TotalBatches(rec.total_users, rec.batch_size)

\* batch_idx < 0 or batch_idx >= total_batches
OutOfRange(i, rec) == i < 0 \/ i >= TotalBatches(rec.total_users, rec.batch_size)

\* routes.retry_job_batch, lines 250-255: the request is answered 400 and no
\* task is queued
RetryReject(k, i) ==
    /\ CanRequest(k)
    /\ job # NoJob
    /\ OutOfRange(i, job)
    /\ op' = [op EXCEPT ![k] = [NoOp EXCEPT !.kind = "retry_rejected", !.pc = "end",
                                            !.idx = i]]
    /\ UNCHANGED << opFrame, storeVars, run >>

\* routes.retry_job_batch: the request is accepted and the task queued
RetryRequest(k, i) ==
    /\ CanRequest(k)
    /\ job # NoJob
    /\ ~OutOfRange(i, job)
    /\ op' = [op EXCEPT ![k] = [NoOp EXCEPT !.kind = "retry", !.pc = "accepted",
                                            !.idx = i]]
    /\ UNCHANGED << opFrame, storeVars, run >>

\* a retry-batch task between its start and its return
RetryAtWork(k) == op[k].kind = "retry" /\ op[k].pc \notin {"none", "end"}

\* routes._retry_batch, lines 72-87: the job record is read; silent returns, or
\* the status of the local record is set to running
RetryBegin(k) ==
    /\ op[k].kind = "retry"
    /\ op[k].pc = "accepted"
    /\ IF job = NoJob \/ job.batch_size = 0 \/ ~UploadExists
          \/ OutOfRange(op[k].idx, job)
       THEN op' = [op EXCEPT ![k] = Ended(k)]
       ELSE op' = [op EXCEPT ![k] = [@ EXCEPT !.status = [job EXCEPT !.status = "running"],
                                              !.pc = "running_write"]]
    /\ UNCHANGED << opFrame, storeVars, run >>

\* line 88 with the pending records of fetch_all_tweets written again
RetryRunningResetsAll(k) ==
    /\ op[k].kind = "retry"
    /\ op[k].pc = "running_write"
    /\ job' = op[k].status
    /\ op' = [op EXCEPT ![k] = [@ EXCEPT !.pc = "fetch"]]
    /\ run' = [run EXCEPT ![OpRunner(k)] =
                 [IdleRunner EXCEPT !.pc = "attempt", !.idx = op[k].idx]]
    /\ batchRec' = [i \in BatchIdx |->
                      IF batchRec[i].status = "absent" THEN NoRec ELSE PendingRec]
    /\ UNCHANGED << opFrame, batchOut, output, summary >>

\* routes._retry_batch, line 88 (and fetch_single_batch_for_job up to the call of
\* _fetch_batch_with_retries): the local record is written, the batch loop starts
RetryRunning(k) ==
    /\ op[k].kind = "retry"
    /\ op[k].pc = "running_write"
    /\ job' = op[k].status
    /\ op' = [op EXCEPT ![k] = [@ EXCEPT !.pc = "fetch"]]
    /\ run' = [run EXCEPT ![OpRunner(k)] =
                 [IdleRunner EXCEPT !.pc = "attempt", !.idx = op[k].idx]]
    /\ UNCHANGED << opFrame, batchRec, batchOut, output, summary >>

\* routes._update_job_batch_counts, line 62: the job record is read
RetryRecountRead(k) ==
    /\ op[k].kind = "retry"
    /\ op[k].pc = "fetch"
    /\ run[OpRunner(k)].pc = "done"
    /\ op' = [op EXCEPT ![k] = [@ EXCEPT !.status = job, !.pc = "count_list"]]
    /\ UNCHANGED << opFrame, storeVars, run >>

\* routes._update_job_batch_counts, lines 65-67: the batch records are listed
\* and counted into the local record
RetryRecountList(k) ==
    /\ op[k].kind = "retry"
    /\ op[k].pc = "count_list"
    /\ op' = [op EXCEPT ![k] =
                [@ EXCEPT !.status = [@ EXCEPT
                                        !.failed_batches = CountStatus("failed"),
                                        !.succeeded_batches = CountStatus("succeeded")],
                          !.pc = "count_write"]]
    /\ UNCHANGED << opFrame, storeVars, run >>

\* routes._update_job_batch_counts, line 68: the local record is written
RetryRecount(k) ==
    /\ op[k].kind = "retry"
    /\ op[k].pc = "count_write"
    /\ job' = op[k].status
    /\ op' = [op EXCEPT ![k] = [@ EXCEPT !.ran = TRUE, !.pc = "recounted"]]
    /\ UNCHANGED << opFrame, batchRec, batchOut, output, summary, run >>

\* status.get("failed_batches", 0)
FailedBatchesOf(rec) == IF rec.failed_batches = Absent THEN 0 ELSE rec.failed_batches

\* routes._retry_batch, lines 107-112: the job record is read again and the
\* final status decided on the local record
RetryFinishRead(k) ==
    /\ op[k].kind = "retry"
    /\ op[k].pc = "recounted"
    /\ op' = [op EXCEPT ![k] =
                [@ EXCEPT !.status = IF FailedBatchesOf(job) = 0
                                     THEN [job EXCEPT !.status = "done",
                                                      !.error = NoError]
                                     ELSE [job EXCEPT !.status = "failed"],
                          !.pc = "finish_write"]]
    /\ UNCHANGED << opFrame, storeVars, run >>

\* routes._retry_batch, line 113: the local record is written, the task returns
RetryFinish(k) ==
    /\ op[k].kind = "retry"
    /\ op[k].pc = "finish_write"
    /\ job' = op[k].status
    /\ op' = [op EXCEPT ![k] = Ended(k)]
    /\ run' = [run EXCEPT ![OpRunner(k)] = IdleRunner]
    /\ UNCHANGED << opFrame, batchRec, batchOut, output, summary >>

\* routes.aggregate_job_endpoint
AggregateRequest(k, summarize) ==
    /\ CanRequest(k)
    /\ job # NoJob
    /\ op' = [op EXCEPT ![k] = [NoOp EXCEPT !.kind = "aggregate", !.pc = "accepted",
                                            !.summarize = summarize]]
    /\ UNCHANGED << opFrame, storeVars, run >>

\* successful_batches without the test of the status
SuccessfulBatchesUnfiltered == ListBatchStatuses

\* successful_batches of _aggregate_job
SuccessfulBatches == { i \in ListBatchStatuses : batchRec[i].status = "succeeded" }

\* routes._aggregate_job, lines 117-129
AggBegin(k) ==
    /\ op[k].kind = "aggregate"
    /\ op[k].pc = "accepted"
    /\ IF SuccessfulBatches = {}
       THEN /\ job' = [job EXCEPT !.status = "failed",
                                  !.error = JobError("no_successful_batches", << >>)]
            /\ op' = [op EXCEPT ![k] = EndedWith(k, "failed")]
       ELSE /\ job' = [job EXCEPT !.status = "summarizing"]
            /\ op' = [op EXCEPT ![k] = [@ EXCEPT !.status = job',
                                                 !.succ = SuccessfulBatches,
                                                 !.pc = "merge"]]
    /\ UNCHANGED << opFrame, batchRec, batchOut, output, summary, run >>

\* sorted(...) of a set of indices
RECURSIVE SortedSeq(_)
SortedSeq(S) ==
    IF S = {} THEN << >>
    ELSE LET m == CHOOSE x \in S : \A y \in S : x <= y
         IN  << m >> \o SortedSeq(S \ {m})

\* not csv_text: get_batch_output returned None or an empty text
NotText(f) == ~f.exists \/ f.text = << >>

\* missing_outputs that keeps the first missing index only
MissingOutputsFirstOnly(succ) ==
    LET order == SortedSeq(succ)
        all == SelectSeq(order, LAMBDA i : NotText(batchOut[i]))
    IN  IF all = << >> THEN << >> ELSE << Head(all) >>

\* lines 131-147: the outputs that are missing, and the combined lines
MissingOutputs(succ) ==
    LET order == SortedSeq(succ)
    IN  SelectSeq(order, LAMBDA i : NotText(batchOut[i]))

\* line 141: [line for line in csv_text.splitlines() if line]
NonEmptyLines(text) == SelectSeq(text, LAMBDA l : l.kind # "blank")

RECURSIVE CombinedLines(_, _)
CombinedLines(order, acc) ==
    IF order = << >> THEN acc
    ELSE LET lines == NonEmptyLines(batchOut[Head(order)].text)
         IN  IF NotText(batchOut[Head(order)]) \/ lines = << >>
             THEN CombinedLines(Tail(order), acc)
             ELSE IF acc = << >>
             THEN CombinedLines(Tail(order), acc \o lines)
             ELSE CombinedLines(Tail(order), acc \o Tail(lines))

\* lines 155-157, the combined lines put after what the merged output holds
AggregatedCsvAppended(succ) ==
    LET combined == CombinedLines(SortedSeq(succ), << >>)
    IN  output.text \o (IF combined = << >> THEN << HeaderPlain >> ELSE combined)

\* lines 155-157
AggregatedCsv(succ) ==
    LET combined == CombinedLines(SortedSeq(succ), << >>)
    IN  IF combined = << >> THEN << HeaderPlain >> ELSE combined

\* routes._aggregate_job, lines 131-158
AggMerge(k) ==
    /\ op[k].kind = "aggregate"
    /\ op[k].pc = "merge"
    /\ IF MissingOutputs(op[k].succ) # << >>
       THEN /\ job' = [op[k].status EXCEPT
                         !.status = "failed",
                         !.error = JobError("missing_outputs",
                                            MissingOutputs(op[k].succ))]
            /\ op' = [op EXCEPT ![k] = EndedWith(k, "failed")]
            /\ UNCHANGED output
       ELSE /\ output' = File(AggregatedCsv(op[k].succ))
            /\ op' = [op EXCEPT ![k] =
                        [@ EXCEPT !.csv = output'.text,
                                  !.pc = IF op[k].summarize THEN "summarize"
                                         ELSE "done_write"]]
            /\ UNCHANGED job
    /\ UNCHANGED << opFrame, batchRec, batchOut, summary, run >>

\* lines 160-163: summarize_csv returns and the summary is saved
AggSummarizeOk(k) ==
    /\ op[k].kind = "aggregate"
    /\ op[k].pc = "summarize"
    /\ summary' = File(op[k].csv)
    /\ op' = [op EXCEPT ![k] = [@ EXCEPT !.sum = "ok", !.pc = "done_write"]]
    /\ UNCHANGED << opFrame, job, batchRec, batchOut, output, run >>

\* lines 164-168: summarize_csv raises
AggSummarizeRaise(k) ==
    /\ op[k].kind = "aggregate"
    /\ op[k].pc = "summarize"
    /\ job' = [op[k].status EXCEPT !.status = "failed",
                                   !.error = JobError("summarize_raised", << >>)]
    /\ op' = [op EXCEPT ![k] = [EndedWith(k, "failed") EXCEPT !.sum = "raised"]]
    /\ UNCHANGED << opFrame, batchRec, batchOut, output, summary, run >>

\* lines 170-172
AggDone(k) ==
    /\ op[k].kind = "aggregate"
    /\ op[k].pc = "done_write"
    /\ job' = [op[k].status EXCEPT !.status = "done", !.error = NoError]
    /\ op' = [op EXCEPT ![k] = EndedWith(k, "done")]
    /\ UNCHANGED << opFrame, batchRec, batchOut, output, summary, run >>

\* no writer of the job is at work: the pipeline and the earlier operations ended
Quiescent == pc = "end" /\ \A k \in OpIds : op[k].pc \in {"none", "end"}

OpsNext ==
    \E k \in OpIds :
        \/ \E i \in RetryIdx : Quiescent /\ RetryReject(k, i)
        \/ \E i \in RetryIdx : Quiescent /\ RetryRequest(k, i)
        \/ RetryBegin(k)
        \/ RetryRunning(k)
        \/ RetryRecountRead(k)
        \/ RetryRecountList(k)
        \/ RetryRecount(k)
        \/ RetryFinishRead(k)
        \/ RetryFinish(k)
        \/ \E b \in BOOLEAN : Quiescent /\ AggregateRequest(k, b)
        \/ AggBegin(k)
        \/ AggMerge(k)
        \/ AggSummarizeOk(k)
        \/ AggSummarizeRaise(k)
        \/ AggDone(k)

\* one job of up to OpsMaxUsers rows, dispatched in any of the three ways; the
\* manual operations are requested one at a time once the pipeline has ended
\* (the single writer per job that the design assumes)
Next ==
    \/ \E n \in 1..OpsMaxUsers, size \in 1..MaxBatchSize : CreateJob(n, size)
    \/ \E n \in 1..OpsMaxUsers, size \in 1..MaxBatchSize : RunSubNow(n, size)
    \/ \E n \in 1..OpsMaxUsers, size \in 1..MaxBatchSize : ScheduleFire(n, size)
    \/ PipelineSteps
    \/ LoopNext
    \/ OpsNext

Spec == Init /\ [][Next]_vars

\* a retry-batch of index i may be requested while retries of other indices are
\* at work: every request runs as a background task of its own
OverlapFree(i) == pc = "end" /\ \A j \in OpIds : RetryAtWork(j) => op[j].idx # i

\* one uploaded job run to its end, then retry-batch requests that may overlap
\* on different indices
OverlapNext ==
    \/ \E n \in 1..OpsMaxUsers, size \in 1..MaxBatchSize : CreateJob(n, size)
    \/ PipelineSteps
    \/ LoopNext
    \/ \E k \in OpIds :
        \/ \E i \in RetryIdx : OverlapFree(i) /\ RetryRequest(k, i)
        \/ RetryBegin(k)
        \/ RetryRunning(k)
        \/ RetryRecountRead(k)
        \/ RetryRecountList(k)
        \/ RetryRecount(k)
        \/ RetryFinishRead(k)
        \/ RetryFinish(k)

SpecOverlap == Init /\ [][OverlapNext]_vars

(***************************************************************************)
(* A process that stops while a job is running                             *)
(***************************************************************************)
\* the process stops while run_job is at work: its threads and their locals are
\* gone, the files of the store stay as the last write left them
ProcessStop ==
    /\ pc \notin {"none", "end", "stopped"}
    /\ pc' = "stopped"
    /\ status' = NoJob
    /\ batches' = << >>
    /\ initIdx' = 0
    /\ run' = [r \in Runners |-> IdleRunner]
    /\ collected' = << >>
    /\ completed_count' = 0
    /\ csv_text' = << >>
    /\ UNCHANGED << chunkVars, subVars, storeVars, origin, upload, args, op, pipeHist,
                    pipeSummarized >>

\* the process is up again and no task is at work on the job
Restarted == pc = "stopped" /\ \A k \in OpIds : op[k].pc \in {"none", "end"}

\* one job that is run to its end or stopped on the way; aggregate-now is
\* requested on what a stopped run left in the store, one request at a time
CrashNext ==
    \/ \E n \in 1..OpsMaxUsers, size \in 1..MaxBatchSize : CreateJob(n, size)
    \/ \E n \in 1..OpsMaxUsers, size \in 1..MaxBatchSize : RunSubNow(n, size)
    \/ \E n \in 1..OpsMaxUsers, size \in 1..MaxBatchSize : ScheduleFire(n, size)
    \/ PipelineSteps
    \/ LoopNext
    \/ ProcessStop
    \/ \E k \in OpIds :
        \/ \E b \in BOOLEAN : Restarted /\ AggregateRequest(k, b)
        \/ AggBegin(k)
        \/ AggMerge(k)
        \/ AggSummarizeOk(k)
        \/ AggSummarizeRaise(k)
        \/ AggDone(k)

SpecCrash == Init /\ [][CrashNext]_vars

(***************************************************************************)
(* Aggregation alone: aggregate-now on what a finished job left in the     *)
(* store, for every outcome of its batches and every kind of row           *)
(***************************************************************************)
\* the row lists a succeeded batch can hold: none, plain rows, rows whose text
\* holds an empty line
MergeRowChoices(i) ==
    { << >>, << Row(i, 1) >>, << Row(i, 3) >>, << Row(i, 1), Row(i, 3) >> }

\* what the batch loop of index i left: failed, or succeeded with rows
BatchOutcomes(i) ==
    { [ok |-> FALSE, rows |-> << >>] } \cup
    { [ok |-> TRUE, rows |-> rows] : rows \in MergeRowChoices(i) }

\* the record a batch loop leaves after its last write
LeftRec(o, i) ==
    IF o.ok
    THEN [status |-> "succeeded", attempts |-> 1, max_attempts |-> MaxAttempts,
          error |-> NoBatchError]
    ELSE [status |-> "failed", attempts |-> MaxAttempts, max_attempts |-> MaxAttempts,
          error |-> GrokBatchError(ChatError(
                        HttpError(BatchMaxRetries, MaxRetries, MaxRetries)))]

\* the store after run_job has ended on n batches of one row with outcomes
\* out, its summarization having returned
LeftByRunJob(n, out) ==
    LET failed == Cardinality({ i \in 0..(n - 1) : ~out[i].ok })
        text == RowsToCsv(Concat([k \in 1..n |-> out[k - 1].rows]))
    IN  /\ upload = [k \in 1..n |-> k]
        /\ args = [batch_size |-> 1, total_users |-> n]
        /\ job = [status |-> IF failed > 0 THEN "failed" ELSE "done",
                  batch_size |-> 1, total_users |-> n, completed_batches |-> n,
                  total_batches |-> n, failed_batches |-> failed,
                  succeeded_batches |-> n - failed,
                  error |-> IF failed > 0 THEN JobError("batches_failed", << >>)
                            ELSE NoError]
        /\ batchRec = [i \in BatchIdx |-> IF i < n THEN LeftRec(out[i], i) ELSE NoRec]
        /\ batchOut = [i \in BatchIdx |->
                         IF i < n /\ out[i].ok THEN File(RowsToCsv(out[i].rows))
                         ELSE NoFile]
        /\ csv_text = text
        /\ output = IF failed > 0 THEN NoFile ELSE File(text)
        /\ summary = IF failed > 0 THEN NoFile ELSE File(text)
        /\ pipeHist = IF failed > 0 THEN << "queued", "running", "failed" >>
                      ELSE << "queued", "running", "summarizing", "done" >>
        /\ pipeSummarized = IF failed > 0 THEN "no" ELSE "ok"

MergeInit ==
    /\ ChunkIdle
    /\ SubsIdle
    /\ origin = "create"
    /\ pc = "end"
    /\ status = NoJob
    /\ batches = << >>
    /\ initIdx = 0
    /\ run = [r \in Runners |-> IdleRunner]
    /\ collected = << >>
    /\ completed_count = 0
    /\ op = [k \in OpIds |-> NoOp]
    /\ \E n \in 1..MaxBatches :
         \E out \in [0..(n - 1) -> UNION { BatchOutcomes(i) : i \in BatchIdx }] :
            /\ \A i \in 0..(n - 1) : out[i] \in BatchOutcomes(i)
            /\ LeftByRunJob(n, out)

MergeNext ==
    \E k \in OpIds :
        \/ \E b \in BOOLEAN : Quiescent /\ AggregateRequest(k, b)
        \/ AggBegin(k)
        \/ AggMerge(k)
        \/ AggSummarizeOk(k)
        \/ AggSummarizeRaise(k)
        \/ AggDone(k)

SpecMerge == MergeInit /\ [][MergeNext]_vars

(***************************************************************************)
(* Subscriptions and their scheduler                                       *)
(***************************************************************************)
\* everything but the subscriptions
jobVars == << chunkVars, storeVars, pipeVars, run, op >>

\* the times of day and the enabled flags a request carries; an update may
\* leave a field out (None)
Hours == {8, 9}
Minutes == {0, 30}
KeepTime == 0 - 1
EnableInputs == {"keep", "on", "off"}

\* _schedule_subscription that adds the job without removing the one registered
ScheduleTriggerAdded(trigs, id, rec) ==
    [trigs EXCEPT ![id] = Append(@, Trigger(rec.hour, rec.minute))]

\* SubscriptionScheduler._schedule_subscription: the job registered under the
\* id is removed and a job with the trigger of the record is added
ScheduleTrigger(trigs, id, rec) ==
    [trigs EXCEPT ![id] = << Trigger(rec.hour, rec.minute) >>]

\* _unschedule_subscription that leaves the job registered
UnscheduleNothing(trigs, id) == trigs

\* SubscriptionScheduler._unschedule_subscription
UnscheduleTrigger(trigs, id) == [trigs EXCEPT ![id] = << >>]

\* _schedule_subscription, lines 80-84: the record is saved with the next fire
\* time of the new trigger
WithNextRun(rec, t) ==
    [rec EXCEPT !.next_run = NextFireTime(Trigger(rec.hour, rec.minute), t)]

\* the record schedule_subscription leaves: saved again when it is scheduled
AfterSchedule(rec, t) ==
    IF rec.exists /\ rec.enabled THEN WithNextRun(rec, t) ELSE rec

\* SubscriptionScheduler.get_next_run
GetNextRun(id) ==
    IF sched = "up" /\ triggers[id] # << >>
    THEN NextFireTime(triggers[id][1], now)
    ELSE 0

\* routes.get_sub: next_run of the response for an existing record
GetSubNextRun(id) ==
    IF sched = "up" /\ GetNextRun(id) # 0 THEN GetNextRun(id) ELSE subRec[id].next_run

\* time passes
Tick ==
    /\ now < ClockStart + MaxTicks
    /\ now' = now + 1
    /\ UNCHANGED << jobVars, subJobB, sched, subRec, subCsv, triggers, subJob, wanted, fires >>

\* SubscriptionScheduler.schedule_subscription, on the record it reads
ScheduleSubscription(trigs, id, rec) ==
    IF rec.exists /\ rec.enabled
    THEN ScheduleTrigger(trigs, id, rec)
    ELSE UnscheduleTrigger(trigs, id)

\* SubscriptionScheduler.start (app.lifespan): a new scheduler is started and
\* every enabled record is scheduled
SchedulerStart ==
    /\ sched = "down"
    /\ sched' = "up"
    /\ triggers' = [id \in SubIds |->
                      IF subRec[id].exists /\ subRec[id].enabled
                      THEN ScheduleTrigger(triggers, id, subRec[id])[id]
                      ELSE triggers[id]]
    /\ subRec' = [id \in SubIds |-> AfterSchedule(subRec[id], now)]
    /\ UNCHANGED << jobVars, subJobB, subCsv, subJob, wanted, fires, now >>

\* the process ends (SubscriptionScheduler.shutdown): the scheduler, its jobs
\* and the running threads are gone, the records stay
SchedulerShutdown ==
    /\ sched = "up"
    /\ sched' = "down"
    /\ triggers' = [id \in SubIds |-> << >>]
    /\ subJob' = [id \in SubIds |-> NoSubJob]
    /\ subJobB' = [id \in SubIds |-> NoSubJob]
    /\ UNCHANGED << jobVars, subRec, subCsv, wanted, fires, now >>

\* routes.create_subscription: a fresh id, the record is saved and scheduled
\* when enabled
SubCreate(id, h, m, en) ==
    /\ sched = "up"
    /\ ~subRec[id].exists /\ ~subCsv[id] /\ ~subJob[id].active /\ ~subJobB[id].active
    /\ \A j \in SubIds : j < id => subCsv[j]
    /\ subCsv' = [subCsv EXCEPT ![id] = TRUE]
    /\ subRec' = [subRec EXCEPT ![id] = AfterSchedule(SubRecord(h, m, en), now)]
    /\ triggers' = IF en THEN ScheduleSubscription(triggers, id, SubRecord(h, m, en))
                   ELSE triggers
    /\ wanted' = [wanted EXCEPT ![id] = en]
    /\ UNCHANGED << jobVars, subJobB, sched, subJob, fires, now >>

\* routes.update_sub: the record is read, the fields the request carries are
\* set, the record is saved and schedule_subscription called
SubUpdate(id, h, m, en) ==
    /\ sched = "up"
    /\ subRec[id].exists
    /\ LET saved == [subRec[id] EXCEPT
                        !.hour = IF h = KeepTime THEN @ ELSE h,
                        !.minute = IF m = KeepTime THEN @ ELSE m,
                        !.enabled = IF en = "keep" THEN @ ELSE en = "on"]
       IN  /\ subRec' = [subRec EXCEPT ![id] = AfterSchedule(saved, now)]
           /\ triggers' = ScheduleSubscription(triggers, id, saved)
    /\ wanted' = [wanted EXCEPT ![id] = IF en = "keep" THEN @ ELSE en = "on"]
    /\ UNCHANGED << jobVars, subJobB, sched, subCsv, subJob, fires, now >>

\* routes.delete_sub: the trigger is removed, the record and the input deleted
SubDelete(id) ==
    /\ sched = "up"
    /\ subRec[id].exists
    /\ triggers' = UnscheduleTrigger(triggers, id)
    /\ subRec' = [subRec EXCEPT ![id] = NoSub]
    /\ subCsv' = [subCsv EXCEPT ![id] = FALSE]
    /\ wanted' = [wanted EXCEPT ![id] = FALSE]
    /\ UNCHANGED << jobVars, subJobB, sched, subJob, fires, now >>

\* the sub dict saved before run_job is called: a fresh job id, the status st
Dispatched(rec, jid, st) ==
    [rec EXCEPT !.last_job_id = jid, !.last_status = st, !.last_error = "none"]

\* a trigger of the subscription fires: _run_subscription, run_now up to the
\* call of run_job (lines 107-143)
Fire(id) ==
    /\ sched = "up"
    /\ triggers[id] # << >>
    /\ ~subJob[id].active
    /\ fires < MaxFires
    /\ fires' = fires + 1
    /\ IF ~subRec[id].exists
       THEN UNCHANGED << subRec, subJob >>
       ELSE IF ~subCsv[id]
       THEN /\ subRec' = [subRec EXCEPT ![id] =
                            [@ EXCEPT !.last_status = "failed", !.last_error = "set"]]
            /\ UNCHANGED subJob
       ELSE /\ subRec' = [subRec EXCEPT ![id] = Dispatched(@, fires', "running")]
            /\ subJob' = [subJob EXCEPT ![id] =
                            [active |-> TRUE, sub |-> subRec'[id], stage |-> "start",
                             job_id |-> fires']]
    /\ UNCHANGED << jobVars, subJobB, sched, subCsv, triggers, wanted, now >>

\* routes.run_sub_now: the sub dict and the queued job record are saved, and
\* run_job is left to a background task
SubRunNow(id) ==
    /\ sched = "up"
    /\ subRec[id].exists /\ subCsv[id]
    /\ ~subJob[id].active
    /\ fires < MaxFires
    /\ fires' = fires + 1
    /\ subRec' = [subRec EXCEPT ![id] = Dispatched(@, fires', "queued")]
    /\ subJob' = [subJob EXCEPT ![id] =
                    [active |-> TRUE, sub |-> subRec'[id], stage |-> "queued",
                     job_id |-> fires']]
    /\ UNCHANGED << jobVars, subJobB, sched, subCsv, triggers, wanted, now >>

\* the job statuses run_job reports one after the other
NextStages(stage) ==
    CASE stage \in {"start", "queued"} -> {"running"}
      [] stage = "running" -> {"summarizing", "failed"}
      [] stage = "summarizing" -> {"done", "failed"}
      [] OTHER -> {}

\* a status callback that saves the sub dict as it is
JobCallbackKeepsStatus(id, st) ==
    /\ subJob[id].active
    /\ st \in NextStages(subJob[id].stage)
    /\ subRec' = [subRec EXCEPT ![id] = subJob[id].sub]
    /\ subJob' = [subJob EXCEPT ![id] =
                    [@ EXCEPT !.active = st \notin {"done", "failed"}, !.stage = st]]
    /\ UNCHANGED << jobVars, subJobB, sched, subCsv, triggers, wanted, fires, now >>

\* run_job writes the job status st and calls on_status_update (run_now) or
\* update_sub_status (run_sub_now): the status, and the error of a failed job,
\* are set in the sub dict of the run and the dict is saved; run_job returns
\* after done or failed
JobCallback(id, st) ==
    /\ subJob[id].active
    /\ st \in NextStages(subJob[id].stage)
    /\ LET sub2 == [subJob[id].sub EXCEPT
                       !.last_status = st,
                       !.last_error = IF st = "failed" THEN "set" ELSE @]
       IN  /\ subRec' = [subRec EXCEPT ![id] = sub2]
           /\ subJob' = [subJob EXCEPT ![id] =
                           [@ EXCEPT !.active = st \notin {"done", "failed"},
                                     !.sub = sub2, !.stage = st]]
    /\ UNCHANGED << jobVars, subJobB, sched, subCsv, triggers, wanted, fires, now >>

\* routes.run_sub_now requested while a run of the subscription is active: the
\* route does not look at running jobs and starts a second run_job
SubRunNowOverlap(id) ==
    /\ sched = "up"
    /\ subRec[id].exists /\ subCsv[id]
    /\ subJob[id].active /\ ~subJobB[id].active
    /\ fires < MaxFires
    /\ fires' = fires + 1
    /\ subRec' = [subRec EXCEPT ![id] = Dispatched(@, fires', "queued")]
    /\ subJobB' = [subJobB EXCEPT ![id] =
                     [active |-> TRUE, sub |-> subRec'[id], stage |-> "queued",
                      job_id |-> fires']]
    /\ UNCHANGED << jobVars, sched, subCsv, triggers, subJob, wanted, now >>

\* update_sub_status of the second run: as JobCallback, on the sub dict of that
\* run
JobCallbackOverlap(id, st) ==
    /\ subJobB[id].active
    /\ st \in NextStages(subJobB[id].stage)
    /\ LET sub2 == [subJobB[id].sub EXCEPT
                       !.last_status = st,
                       !.last_error = IF st = "failed" THEN "set" ELSE @]
       IN  /\ subRec' = [subRec EXCEPT ![id] = sub2]
           /\ subJobB' = [subJobB EXCEPT ![id] =
                            [@ EXCEPT !.active = st \notin {"done", "failed"},
                                      !.sub = sub2, !.stage = st]]
    /\ UNCHANGED << jobVars, sched, subCsv, triggers, subJob, wanted, fires, now >>

\* the requests on subscription id
SubRequests(id) ==
    \/ \E h \in Hours, m \in Minutes, en \in BOOLEAN : SubCreate(id, h, m, en)
    \/ \E h \in Hours \cup {KeepTime}, m \in Minutes \cup {KeepTime},
          en \in EnableInputs : SubUpdate(id, h, m, en)
    \/ SubDelete(id)

\* create, update and delete requests on up to MaxSubs subscriptions, restarts
\* of the process and the passing of time; no trigger fires
SubsNext ==
    \/ SchedulerStart
    \/ SchedulerShutdown
    \/ Tick
    \/ \E id \in SubIds : SubRequests(id)

SpecSubs == Init /\ [][SubsNext]_vars

\* the same without the clock, with the triggers firing, run-now requests and
\* the jobs reporting their statuses
SchedNext ==
    \/ SchedulerStart
    \/ SchedulerShutdown
    \/ \E id \in FiringIds : SubRequests(id)
    \/ \E id \in FiringIds : Fire(id)
    \/ \E id \in FiringIds : SubRunNow(id)
    \/ \E id \in FiringIds, st \in {"running", "summarizing", "done", "failed"} :
          JobCallback(id, st)

SpecSched == Init /\ [][SchedNext]_vars

\* subscriptions whose schedule is not edited: they are created, enabled,
\* disabled and deleted, their triggers fire, and run-now requests come in
\* whether or not a run is at work
RunsNext ==
    \/ SchedulerStart
    \/ \E id \in FiringIds, h \in Hours, m \in Minutes : SubCreate(id, h, m, TRUE)
    \/ \E id \in FiringIds, en \in EnableInputs : SubUpdate(id, KeepTime, KeepTime, en)
    \/ \E id \in FiringIds : SubDelete(id)
    \/ \E id \in FiringIds : Fire(id)
    \/ \E id \in FiringIds : SubRunNow(id)
    \/ \E id \in FiringIds, st \in {"running", "summarizing", "done", "failed"} :
          JobCallback(id, st)
    \/ \E id \in FiringIds : SubRunNowOverlap(id)
    \/ \E id \in FiringIds, st \in {"running", "summarizing", "done", "failed"} :
          JobCallbackOverlap(id, st)

SpecRuns == Init /\ [][RunsNext]_vars

(***************************************************************************)
(* Claims                                                                  *)
(***************************************************************************)
Last(q) == q[Len(q)]
IsPrefix(p, q) == Len(p) <= Len(q) /\ \A k \in 1..Len(p) : p[k] = q[k]

\* C1: for a row list of R >= 1 rows and a batch size B >= 1 the split has
\* ceil(R/B) batches, every batch but the last has B rows and the last has
\* between 1 and B, the batches concatenated in index order are the row list,
\* and total_batches of the job record is the number of batches.
C1_ChunkPartitions ==
    /\ cBatches # << >> =>
          /\ Len(cBatches) = CeilDiv(Len(cRows), cSize)
          /\ \A k \in 1..(Len(cBatches) - 1) : Len(cBatches[k]) = cSize
          /\ Len(Last(cBatches)) \in 1..cSize
          /\ Concat(cBatches) = cRows
    /\ cTotal # -1 => cTotal = CeilDiv(Len(cRows), cSize)
    /\ (cBatches # << >> /\ cTotal # -1) => cTotal = Len(cBatches)

\* C1 witness: a split into several batches with a shorter last one, counted
C1_Witness ==
    /\ cTotal # -1
    /\ Len(cBatches) >= 2
    /\ Len(Last(cBatches)) < cSize

\* C2 (as claimed): in every state, every batch whose persisted status record
\* is succeeded has a persisted batch output.
C2_SucceededHasOutput ==
    \A i \in BatchIdx : batchRec[i].status = "succeeded" => batchOut[i].exists

\* C3: a batch loop of the pool that returns failed has made exactly
\* batch_max_retries + 1 outer attempts and has persisted status failed, that
\* number of attempts and the error of its last attempt; a loop whose call
\* succeeded has persisted status succeeded whatever its siblings did.
C3_ExhaustedBatchFailed ==
    \A i \in Futures :
        /\ (run[i].pc = "done" /\ run[i].fs.status = "failed") =>
              /\ run[i].fs.attempts = BatchMaxRetries + 1
              /\ batchRec[i].status = "failed"
              /\ batchRec[i].attempts = BatchMaxRetries + 1
              /\ batchRec[i].error # NoBatchError
              /\ batchRec[i].error =
                    GrokBatchError(ChatError(
                        HttpError(BatchMaxRetries, MaxRetries, MaxRetries)))
        /\ run[i].pc = "done" =>
              run[i].fs.status \in {"succeeded", "failed"}
        /\ (run[i].pc = "save" \/ (run[i].pc = "done" /\ run[i].fs.status = "succeeded")) =>
              /\ batchRec[i].status = "succeeded"
              /\ batchRec[i].attempts <= BatchMaxRetries + 1

\* C3 witness: one batch ended failed and a sibling ended succeeded
C3_Witness ==
    \E i, j \in Futures :
        /\ run[i].pc = "done" /\ batchRec[i].status = "failed"
        /\ run[j].pc = "done" /\ batchRec[j].status = "succeeded"

\* C4: at every moment the number of pool batch loops in progress is at most
\* max_workers.
C4_PoolBounded == Cardinality({ r \in Futures : InLoop(r) }) <= MaxWorkers

\* C4 witness: every worker is busy and a batch waits in the queue
C4_Witness ==
    /\ Cardinality({ r \in Futures : InLoop(r) }) = MaxWorkers
    /\ \E r \in Futures : run[r].pc = "queued"

\* the data rows of a text
DataRows(text) ==
    LET data == SelectSeq(text, LAMBDA l : ~IsHeader(l))
    IN  [k \in 1..Len(data) |-> data[k].row]

\* C5: the merged text the executor returns holds one header and then the rows
\* of the succeeded batches by ascending batch index (rows of a batch in their
\* own order), whatever the completion order; a failed batch has no row in it.
C5_MergedByIndex ==
    pc = "finish" =>
        LET rows == DataRows(csv_text)
        IN  /\ Len(csv_text) = Len(rows) + 1
            /\ IsHeader(csv_text[1])
            /\ \A a, b \in 1..Len(rows) : a < b => rows[a] < rows[b]
            /\ { rows[k] : k \in 1..Len(rows) } =
                  UNION { { run[i].rows[k] : k \in 1..Len(run[i].rows) } :
                          i \in { j \in Futures : batchRec[j].status = "succeeded" } }
            /\ \A i \in Futures : batchRec[i].status = "failed" =>
                  \A k \in 1..Len(rows) : rows[k] \notin { Row(i, 1), Row(i, 2) }

\* C5 witness: a later batch completed first, two batches gave rows, one failed
C5_Witness ==
    /\ pc = "finish"
    /\ collected[1] > collected[Len(collected)]
    /\ Len(DataRows(csv_text)) >= 4
    /\ \E i \in Futures : batchRec[i].status = "failed"

\* a batch of the pool ended failed
SomeBatchFailed == \E i \in Futures : run[i].pc = "done" /\ run[i].fs.status = "failed"

\* C6: once the executor has returned with a failed batch, run_job writes
\* failed after running and ends: it never writes summarizing or done and
\* never calls the summarization.
C6_FailedBatchFailsJob ==
    (pc \in {"finish", "summarizing", "summarize", "done_write", "end"}
       /\ SomeBatchFailed) =>
        /\ pc \in {"finish", "end"}
        /\ pipeSummarized = "no"
        /\ \A k \in 1..Len(pipeHist) : pipeHist[k] \notin {"summarizing", "done"}
        /\ pc = "end" =>
              /\ job.status = "failed"
              /\ Len(pipeHist) >= 2
              /\ Last(pipeHist) = "failed"
              /\ pipeHist[Len(pipeHist) - 1] = "running"

\* C6 witness: run_job has ended on a failed batch while a sibling succeeded
C6_Witness ==
    /\ pc = "end"
    /\ SomeBatchFailed
    /\ \E i \in Futures : run[i].fs.status = "succeeded"

\* operation k is the last one requested
LastOp(k) == k = MaxManualOps \/ op[k + 1].kind = "none"

\* C7 (as claimed): an aggregate-now on a job with a failed batch record leaves
\* the job failed.
C7_AggregateWithFailedBatchFails ==
    \A k \in OpIds :
        (op[k].kind = "aggregate" /\ op[k].pc = "end" /\ LastOp(k)
           /\ \E i \in BatchIdx : batchRec[i].status = "failed") =>
            job.status = "failed"

\* all batches of the job succeeded
AllSucceeded == \A i \in Futures : run[i].pc = "done" /\ run[i].fs.status = "succeeded"

\* C8 (as claimed): the statuses written for a dispatched job are queued,
\* running, summarizing and then done or failed, in that order, however the
\* job was dispatched.
C8_QueuedFirstAlways ==
    /\ \/ IsPrefix(pipeHist, << "queued", "running", "summarizing", "done" >>)
       \/ IsPrefix(pipeHist, << "queued", "running", "summarizing", "failed" >>)
       \/ IsPrefix(pipeHist, << "queued", "running", "failed" >>)
    /\ (pc = "end" /\ AllSucceeded) =>
          pipeHist \in { << "queued", "running", "summarizing", "done" >>,
                         << "queued", "running", "summarizing", "failed" >> }

\* the statuses written before run_job starts
Queued == IF origin = "schedule" THEN << >> ELSE << "queued" >>

\* C8 (amended): a job created by create-job or by the run-now endpoint is first
\* written queued, a job of a schedule firing is not written before it runs;
\* from there a job whose batches all succeed is written running, summarizing
\* and then done when the summarization completes and failed when it raises;
\* no other order is written.
C8_StatusOrder ==
    /\ \/ IsPrefix(pipeHist, Queued \o << "running", "summarizing", "done" >>)
       \/ IsPrefix(pipeHist, Queued \o << "running", "summarizing", "failed" >>)
       \/ IsPrefix(pipeHist, Queued \o << "running", "failed" >>)
    /\ (pc = "end" /\ AllSucceeded) =>
          \/ /\ pipeSummarized = "ok"
             /\ pipeHist = Queued \o << "running", "summarizing", "done" >>
          \/ /\ pipeSummarized = "raised"
             /\ pipeHist = Queued \o << "running", "summarizing", "failed" >>

\* C8 witness: a job of a schedule firing has ended done
C8_Witness ==
    /\ pc = "end"
    /\ origin = "schedule"
    /\ AllSucceeded
    /\ pipeSummarized = "ok"
    /\ job.status = "done"

\* C9 (as claimed): a retry-batch for a valid index sets the job running,
\* re-runs that batch and then sets the job done if the recount finds no failed
\* batch and failed otherwise.
C9_RetryRunsAndSettles ==
    \A k \in OpIds :
        /\ (op[k].kind = "retry" /\ op[k].pc = "fetch") => job.status = "running"
        /\ (op[k].kind = "retry" /\ op[k].pc = "end") => op[k].ran
        /\ (op[k].kind = "retry" /\ op[k].pc = "end" /\ LastOp(k)) =>
              job.status = IF CountStatus("failed") = 0 THEN "done" ELSE "failed"

\* C10: every step taken while a retry-batch of index i is at work leaves the
\* status record and the output of every other batch index as they were.
C10_RetryWritesOnlyItsBatch ==
    [][\A k \in OpIds :
          RetryAtWork(k) =>
              \A j \in BatchIdx \ {op[k].idx} :
                  /\ batchRec'[j] = batchRec[j]
                  /\ batchOut'[j] = batchOut[j]]_vars

\* C10 witness: the retried batch has been re-run and succeeded while another
\* batch of the job stays failed
C10_Witness ==
    \E k \in OpIds :
        /\ op[k].kind = "retry"
        /\ op[k].pc = "recounted"
        /\ batchRec[op[k].idx].status = "succeeded"
        /\ batchOut[op[k].idx].exists
        /\ \E j \in BatchIdx \ {op[k].idx} : batchRec[j].status = "failed"

\* C11 (as claimed): whenever no operation is at work on the job and a
\* retry-batch has finished, failed_batches and succeeded_batches of the job
\* record are the numbers of batch records in status failed and succeeded, and
\* the job is done only if failed_batches is 0.
C11_CountsAgreeWhenIdle ==
    (/\ pc = "end"
     /\ \A k \in OpIds : op[k].pc \in {"none", "end"}
     /\ \E k \in OpIds : op[k].kind = "retry" /\ op[k].pc = "end" /\ op[k].ran) =>
        /\ job.failed_batches = CountStatus("failed")
        /\ job.succeeded_batches = CountStatus("succeeded")
        /\ job.status = "done" => job.failed_batches = 0

\* C12: a retry-batch request whose index is below 0 or at least total_batches
\* is never accepted, and the step that rejects it leaves the job record, every
\* batch status record, every batch output, the merged output and the summary
\* as they were and starts no batch loop (so no external call); a rejected
\* request has no task that could act later.
C12_OutOfRangeRejected ==
    /\ [](\A k \in OpIds :
            /\ op[k].kind = "retry" => op[k].idx \in 0..(job.total_batches - 1)
            /\ op[k].kind = "retry_rejected" =>
                  /\ op[k].pc = "end"
                  /\ op[k].idx \notin 0..(job.total_batches - 1))
    /\ [][\A k \in OpIds :
            (op[k].kind = "none" /\ op'[k].kind = "retry_rejected") =>
                /\ UNCHANGED << job, batchRec, batchOut, output, summary >>
                /\ run' = run]_vars

\* C12 witness: a request below 0 and a request at total_batches were rejected
\* on a job that has a failed batch
C12_Witness ==
    /\ op[1].kind = "retry_rejected" /\ op[1].idx = 0 - 1
    /\ op[2].kind = "retry_rejected" /\ op[2].idx = job.total_batches
    /\ job.status = "failed"
    /\ CountStatus("failed") > 0

\* the batches marked succeeded that have no persisted output
SucceededWithoutOutput ==
    { i \in BatchIdx : batchRec[i].status = "succeeded" /\ ~batchOut[i].exists }

\* C13: an aggregate-now on a job where some batch marked succeeded has no
\* persisted output ends with the job failed and an error that lists exactly
\* the indices of those batches, and no step of it writes the merged output
\* (or the summary).
C13_MissingOutputsFailJob ==
    /\ [](\A k \in OpIds :
            (op[k].kind = "aggregate" /\ op[k].pc = "end" /\ LastOp(k)
               /\ SucceededWithoutOutput # {}) =>
                /\ job.status = "failed"
                /\ job.error.kind = "missing_outputs"
                /\ job.error.missing = SortedSeq(SucceededWithoutOutput))
    /\ [][((\E k \in OpIds : op[k].kind = "aggregate" /\ op[k].pc \notin {"none", "end"})
             /\ SucceededWithoutOutput # {}) =>
                (output' = output /\ summary' = summary)]_vars

\* C13 witness: an aggregate-now found one succeeded batch with its output and
\* one without, and ended
C13_Witness ==
    \E k \in OpIds :
        /\ op[k].kind = "aggregate" /\ op[k].pc = "end"
        /\ job.status = "failed"
        /\ job.error = JobError("missing_outputs", << 1 >>)
        /\ batchRec[0].status = "succeeded" /\ batchOut[0].exists
        /\ ~output.exists

\* C14: an aggregate-now on a job with no batch record in status succeeded ends
\* with the job failed and the error "no successful batches", and no step of
\* it writes the merged output or the summary.
C14_NoSuccessfulBatchesFails ==
    /\ [](\A k \in OpIds :
            (op[k].kind = "aggregate" /\ op[k].pc = "end" /\ LastOp(k)
               /\ CountStatus("succeeded") = 0) =>
                /\ job.status = "failed"
                /\ job.error = JobError("no_successful_batches", << >>))
    /\ [][((\E k \in OpIds : op[k].kind = "aggregate" /\ op[k].pc \notin {"none", "end"})
             /\ CountStatus("succeeded") = 0) =>
                (output' = output /\ summary' = summary)]_vars

\* C14 witness: an aggregate-now with summarization requested ended on a job
\* whose batches all failed
C14_Witness ==
    \E k \in OpIds :
        /\ op[k].kind = "aggregate" /\ op[k].pc = "end" /\ op[k].summarize
        /\ job.error.kind = "no_successful_batches"
        /\ CountStatus("failed") = job.total_batches
        /\ job.total_batches = 2
        /\ ~output.exists /\ ~summary.exists

\* two aggregate-now in a row on a job whose batch records are all succeeded
\* have both ended, and no operation was requested since
AggregatedTwice ==
    /\ op[1].kind = "aggregate" /\ op[1].pc = "end"
    /\ op[2].kind = "aggregate" /\ op[2].pc = "end"
    /\ \A k \in OpIds : k > 2 => op[k].kind = "none"
    /\ CountStatus("succeeded") = job.total_batches

\* C15 (as claimed): two aggregate-now in a row on the same fully succeeded
\* batch set write the same merged output and leave the job in the same final
\* status.
C15_TwiceSameOutputAndStatus ==
    AggregatedTwice =>
        /\ op[1].csv = op[2].csv
        /\ output = File(op[2].csv)
        /\ op[1].final = op[2].final

\* C15 (amended): two aggregate-now in a row on the same fully succeeded batch
\* set write the same merged output; each of them leaves the job done unless
\* its summarization was requested and raised, and failed in that case, so the
\* two final statuses agree exactly when the two summarizations raised or did
\* not raise alike.
C15_TwiceSameOutput ==
    AggregatedTwice =>
        /\ op[1].csv = op[2].csv
        /\ op[1].csv # << >>
        /\ output = File(op[2].csv)
        /\ \A k \in {1, 2} :
              /\ op[k].final = (IF op[k].sum = "raised" THEN "failed" ELSE "done")
              /\ op[k].sum = "raised" => op[k].summarize
        /\ job.status = op[2].final
        /\ (op[1].final = op[2].final) <=> ((op[1].sum = "raised") <=> (op[2].sum = "raised"))

\* C15 witness: two aggregate-now over two succeeded batches with rows wrote the
\* same text, the first ended done and the second, whose summarization raised,
\* failed
C15_Witness ==
    /\ AggregatedTwice
    /\ job.total_batches = 2
    /\ Len(op[1].csv) = 5
    /\ op[2].csv = op[1].csv
    /\ op[1].final = "done" /\ op[2].final = "failed"

\* the lines a batch output holds after its header line
DataLinesOf(i) == Tail(batchOut[i].text)

\* C16 (as claimed): the merged output an aggregate-now writes is one header
\* line followed by the data lines of the succeeded batches by ascending batch
\* index, and nothing else.
C16_MergedHeaderThenData ==
    \A k \in OpIds :
        (op[k].kind = "aggregate" /\ op[k].csv # << >>) =>
            LET order == SortedSeq(SuccessfulBatches)
            IN  /\ IsHeader(Head(op[k].csv))
                /\ Tail(op[k].csv) =
                      Concat([j \in 1..Len(order) |-> DataLinesOf(order[j])])

\* the pipeline is at or after the pool of fetch_all_tweets
AtOrAfterPool ==
    pc \in {"pool", "finish", "summarizing", "summarize", "done_write", "end"}

\* C17: during one execution with N batches the completed count goes up by one
\* at a time, each increase being one invocation of the progress callback with
\* the new count and N (the callback writes the count to the job record); the
\* batches counted are distinct batches that reached a terminal state, the job
\* record's completed_batches never exceeds total_batches, and when the
\* executor returns every batch was counted once and completed_batches is N.
C17_ProgressCountsEachBatchOnce ==
    /\ [](/\ completed_count = Len(collected)
          /\ \A a, b \in 1..Len(collected) : a # b => collected[a] # collected[b]
          /\ \A a \in 1..Len(collected) :
                /\ collected[a] \in Futures
                /\ batchRec[collected[a]].status \in {"succeeded", "failed"}
          /\ job.completed_batches <= job.total_batches
          /\ AtOrAfterPool =>
                /\ job.total_batches = Len(batches)
                /\ job.completed_batches = completed_count
          /\ pc \in {"finish", "summarizing", "summarize", "done_write", "end"} =>
                /\ completed_count = Len(batches)
                /\ { collected[a] : a \in 1..Len(collected) } = Futures)
    /\ [][completed_count' # completed_count =>
            /\ completed_count' = completed_count + 1
            /\ job'.completed_batches = completed_count'
            /\ job'.total_batches = Len(batches)]_vars

\* C17 witness: three batches were counted, the last index first, one of them
\* failed, and the executor has returned
C17_Witness ==
    /\ pc = "finish"
    /\ completed_count = 3
    /\ job.completed_batches = 3
    /\ collected[1] = 2
    /\ \E i \in Futures : batchRec[i].status = "failed"

\* C18: after any sequence of create, update (edit, enable, disable) and delete
\* requests, at most one trigger is registered per subscription id, and it
\* carries the hour and minute saved last for that subscription.
C18_OneTriggerPerSubscription ==
    \A id \in SubIds :
        /\ Len(triggers[id]) <= 1
        /\ triggers[id] # << >> =>
              /\ subRec[id].exists
              /\ triggers[id][1] = Trigger(subRec[id].hour, subRec[id].minute)

\* C18 witness: two subscriptions have a trigger each, at different times of
\* day
C18_Witness ==
    /\ sched = "up"
    /\ triggers[1] = << Trigger(9, 30) >>
    /\ triggers[2] = << Trigger(8, 0) >>
    /\ subRec[1].enabled /\ subRec[2].enabled

\* C19: once a subscription was disabled or deleted, no trigger fires for it
\* unless a request enabled it again, whatever happens afterwards: status
\* callbacks of a job of the subscription that was still running, restarts of
\* the scheduler.
C19_NoFiringAfterDisable ==
    [][\A id \in FiringIds : Fire(id) => wanted[id]]_vars

\* the live trigger of id agrees with the durable record of id
TriggerMatchesRecord(id) ==
    /\ triggers[id] # << >> <=> (subRec[id].exists /\ subRec[id].enabled)
    /\ triggers[id] # << >> =>
          triggers[id] = << Trigger(subRec[id].hour, subRec[id].minute) >>

C21_NextRunOnlyWhenEnabled ==
    sched = "up" =>
        \A id \in SubIds :
            /\ ~(subRec[id].exists /\ subRec[id].enabled) => GetNextRun(id) = 0
            /\ subRec[id].exists /\ subRec[id].enabled => GetNextRun(id) > now
            /\ subRec[id].exists /\ ~subRec[id].enabled => GetSubNextRun(id) = 0

\* the record of the subscription names the job of its run, and no trigger
\* fired and no run-now was requested since that run began
NamesJobOfRun(id) ==
    /\ subJob[id].job_id # 0
    /\ subJob[id].job_id = fires
    /\ subRec[id].exists
    /\ subRec[id].last_job_id = subJob[id].job_id

\* the statuses of the job of a run are copied to the record: once run_job has
\* written a status, last_status is that status, also when the job has ended
StatusCopied(id) ==
    NamesJobOfRun(id) /\ subJob[id].stage \notin {"start", "queued"} =>
        /\ subRec[id].last_status = subJob[id].stage
        /\ subJob[id].stage = "failed" => subRec[id].last_error = "set"

\* what a run saves before run_job is called: a job id no run had before,
\* the status st and no error
SavedBeforeDispatch(id, st) ==
    /\ subJob'[id].job_id \notin { subJob[j].job_id : j \in SubIds }
    /\ subRec'[id].last_job_id = subJob'[id].job_id
    /\ subRec'[id].last_status = st
    /\ subRec'[id].last_error = "none"

\* C22 (as claimed): a schedule firing and a run-now alike save last_job_id
\* fresh, last_status running and last_error none before the job is
\* dispatched, and each status of the job is copied to last_status up to the
\* final one.
C22_RunningThenCopied ==
    /\ [](\A id \in FiringIds : StatusCopied(id))
    /\ [][\A id \in FiringIds :
             /\ Fire(id) /\ subJob'[id].active => SavedBeforeDispatch(id, "running")
             /\ SubRunNow(id) => SavedBeforeDispatch(id, "running")]_vars

\* C22 (amended): before the job is dispatched a schedule firing saves
\* last_status running and a run-now request saves last_status queued, both
\* with a fresh last_job_id and last_error none; each status of the job is
\* then copied to last_status up to the final one.
C22_RunningOrQueuedThenCopied ==
    /\ [](\A id \in FiringIds : StatusCopied(id))
    /\ [][\A id \in FiringIds :
             /\ Fire(id) /\ subJob'[id].active => SavedBeforeDispatch(id, "running")
             /\ SubRunNow(id) => SavedBeforeDispatch(id, "queued")]_vars

\* C22 witness: the second job of the subscription, started by a run-now after
\* a first job failed, has ended done and the record says so
C22_Witness ==
    /\ subJob[1].job_id = 2 /\ ~subJob[1].active /\ subJob[1].stage = "done"
    /\ subRec[1].exists /\ subRec[1].last_job_id = 2
    /\ subRec[1].last_status = "done"

\* the HTTP posts that have failed in the outer attempt runner r is making:
\* those of the calls of chat that raised, and those of the call under way
FailedPosts(r) == run[r].u * (MaxRetries + 1) + run[r].c

\* C23: within one outer attempt of a batch the endpoint is called at most
\* max_retries + 1 times: when a post is about to be made, at most max_retries
\* posts of the attempt have failed.
C23_PostsPerAttemptBounded ==
    \A r \in Runners : run[r].pc = "call" => FailedPosts(r) + 1 <= MaxRetries + 1

\* C24: in every retry loop the sleep after the failure of attempt a (0-based)
\* is min(base_delay * 2^a, max_delay), so it never exceeds max_delay and
\* never decreases, and the loop does not sleep after its final attempt.
C24_BackoffCapped ==
    /\ Len(backoff.slept) <= backoff.retries
    /\ \A k \in 1..Len(backoff.slept) :
          /\ backoff.slept[k] = Min(backoff.base * (2 ^ (k - 1)), backoff.max)
          /\ backoff.slept[k] <= backoff.max
          /\ k > 1 => backoff.slept[k - 1] <= backoff.slept[k]

\* an input without identity column or without a row that has a handle
Unusable(f) == ~f.has_column \/ \A k \in 1..Len(f.rows) : f.rows[k] = ""

\* no job record, no batch record, and no batch loop that could call the
\* endpoint
NothingCreated ==
    /\ job = NoJob
    /\ \A i \in BatchIdx : batchRec[i] = NoRec /\ batchOut[i] = NoFile
    /\ \A r \in Runners : run[r] = IdleRunner

\* C25: create-job and run-now on an input without identity column or without
\* usable rows are rejected at once and nothing is created: no job record, no
\* batch record, no external call, then and ever after.
C25_UnusableInputRejected ==
    /\ [](pc = "rejected" => NothingCreated)
    /\ [][\A f \in InputFiles, size \in 1..MaxBatchSize :
             Unusable(f) /\ (\/ CreateJobFrom(f, size)
                             \/ RunSubNowFrom(f, size)
                             \/ ScheduleFireFrom(f, size))
                => pc' = "rejected" /\ NothingCreated']_vars

\* C25 witness: a run-now was rejected
C25_Witness == pc = "rejected" /\ origin = "run_sub_now" /\ NothingCreated

\* C26: while outer attempt k of a batch calls the endpoint the persisted
\* record of the batch is running with attempts = k; when the attempt has
\* succeeded, and before attempt k + 1 begins after a failure, the persisted
\* record is succeeded or failed with attempts = k.
C26_RecordAroundEachAttempt ==
    \A r \in Runners :
        LET rec == batchRec[run[r].idx]
        IN  /\ run[r].pc = "call" =>
                  rec.status = "running" /\ rec.attempts = run[r].attempt + 1
            /\ run[r].pc = "attempt" /\ run[r].attempt >= 1 =>
                  rec.status = "failed" /\ rec.attempts = run[r].attempt
            /\ run[r].pc = "save" =>
                  rec.status = "succeeded" /\ rec.attempts = run[r].attempt + 1

\* C26 witness: the second outer attempt of a batch is calling the endpoint
\* while a sibling waits for its second attempt after a failed first
C26_Witness ==
    \E r, q \in Runners :
        /\ run[r].pc = "call" /\ run[r].attempt = 1
        /\ batchRec[run[r].idx].attempts = 2
        /\ run[q].pc = "attempt" /\ run[q].attempt = 1
        /\ batchRec[run[q].idx].status = "failed"

\* every batch of the job has a persisted record succeeded or failed
AllBatchesSettled ==
    /\ batches # << >>
    /\ \A i \in Futures : batchRec[i].status \in {"succeeded", "failed"}

\* C27: once the batches of a job are submitted, every batch eventually has
\* status succeeded or failed, whatever becomes of its siblings, and the
\* executor returns.
C27_EveryBatchSettles ==
    pc = "pool" ~> (AllBatchesSettled /\ pc \notin {"queued", "split", "pending", "pool"})

\* C27 witness: the executor has returned after one batch failed for good and
\* two siblings succeeded
C27_Witness ==
    /\ pc = "finish"
    /\ Len(batches) = 3
    /\ batchRec[0].status = "failed"
    /\ batchRec[1].status = "succeeded" /\ batchRec[2].status = "succeeded"

\* C28: every dispatched job eventually has the persisted status done or
\* failed.
C28_JobEnds ==
    pc = "queued" ~> job.status \in {"done", "failed"}

\* C28 witness: a job fired by a schedule, which has no record when it is
\* dispatched, has ended failed because its summarization raised
C28_Witness ==
    /\ origin = "schedule"
    /\ pc = "end"
    /\ pipeSummarized = "raised"
    /\ job.status = "failed"

\* the step the worker of batch r would take next can be taken
WorkerCanStep(r) ==
    /\ (/\ run[r].pc = "queued"
        /\ \A j \in Futures : j < r => run[j].pc # "queued"
        /\ PoolHasFreeWorker) => ENABLED StartBatch(r)
    /\ run[r].pc = "attempt" => ENABLED BatchAttemptBegin(r)
    /\ run[r].pc = "call" => ENABLED HttpPostOk(r) /\ ENABLED HttpPostFail(r)
    /\ run[r].pc = "ok" => ENABLED WriteSucceeded(r)
    /\ run[r].pc = "save" => ENABLED SaveOutput(r)
    /\ run[r].pc = "fail" => ENABLED WriteFailed(r)

\* C29: while the completed-count lock is held and the progress callback runs,
\* every worker can start, retry and finish its batch.
C29_CallbackBlocksNoWorker ==
    pc = "callback" => \A r \in Futures : WorkerCanStep(r)

\* C29 witness: the callback for the first finished batch is running while a
\* worker is free for a queued batch and another batch is being retried
C29_Witness ==
    /\ pc = "callback"
    /\ PoolHasFreeWorker
    /\ \E r \in Futures : run[r].pc = "queued"
    /\ \E r \in Futures : run[r].pc = "call" /\ run[r].attempt = 1

\* the answer has no choices, or its text gives the parser no row
NoRowResponse(resp) ==
    \/ resp.choices = << >>
    \/ ParseCsvResponse(ResponseContent(resp)) = << >>

\* the batch loop of r holds an empty row list returned on this attempt
ReturnedNoRows(r) == run[r].pc \in {"ok", "save"} /\ run[r].rows = << >>

\* the batch of r ended succeeded with the header-only output
EndedHeaderOnly(r) ==
    /\ run[r].pc = "done"
    /\ run[r].fs.status = "succeeded"
    /\ batchRec[run[r].idx] = run[r].fs
    /\ batchOut[run[r].idx] = File(<< HeaderPlain >>)

\* C30: an answer with no choices or with a text without rows makes the unit
\* runner return an empty row list without raising; the batch is then recorded
\* succeeded on the attempt that was running, no other post or attempt is made
\* for it, and the output saved for it is the header alone.
C30_NoRowsIsSuccess ==
    /\ [][\A r \in Runners : \A resp \in Responses(run[r].idx) :
            (HttpPostReturns(r, resp) /\ NoRowResponse(resp))
                => (run'[r].pc = "ok" /\ run'[r].rows = << >>)]_vars
    /\ [](\A r \in Runners :
            /\ (ReturnedNoRows(r) /\ run[r].pc = "ok")
                  => (run[r].fs.status = "running"
                      /\ run[r].fs.attempts = run[r].attempt + 1)
            /\ (ReturnedNoRows(r) /\ run[r].pc = "save")
                  => (/\ run[r].fs.status = "succeeded"
                      /\ run[r].fs.attempts = run[r].attempt + 1
                      /\ batchRec[run[r].idx] = run[r].fs))
    /\ [][\A r \in Runners :
            (ReturnedNoRows(r) /\ run'[r] # run[r])
                => (/\ run'[r].fs.attempts = run[r].fs.attempts
                    /\ \/ ReturnedNoRows(r)' /\ run'[r].pc = "save"
                       \/ EndedHeaderOnly(r)')]_vars

\* C30 witness: the first attempt of a batch failed, the second got an answer
\* without rows, and the batch ended succeeded with two attempts counted and
\* the header alone saved
C30_Witness ==
    \E r \in Runners :
        /\ EndedHeaderOnly(r)
        /\ run[r].fs.attempts = 2

\* the header lines of a text, and its lines other than the header lines: the
\* physical lines of its data rows, in order
HeaderLines(text) == SelectSeq(text, IsHeader)
DataPart(text) == SelectSeq(text, LAMBDA l : ~IsHeader(l))

\* run_job merged and saved the rows of a job whose batches all succeeded
PipelineMergedAll ==
    /\ pipeHist = << "queued", "running", "summarizing", "done" >>
    /\ \A i \in BatchIdx : batchRec[i] # NoRec => batchRec[i].status = "succeeded"

\* C31: for a job whose batches all succeeded, the merged output of a later
\* aggregate-now holds the same data rows in the same order as the merged
\* output run_job wrote, and each of the two holds exactly one header line.
C31_AggregateEqualsPipeline ==
    \A k \in OpIds :
        (PipelineMergedAll /\ op[k].kind = "aggregate" /\ op[k].csv # << >>) =>
            /\ Len(HeaderLines(csv_text)) = 1
            /\ Len(HeaderLines(op[k].csv)) = 1
            /\ DataPart(op[k].csv) = DataPart(csv_text)

\* C32: whenever the persisted job record says done, a merged output has been
\* saved for the job, whichever of run_job, retry-batch and aggregate-now wrote
\* the done status.
C32_DoneHasOutput ==
    job.status = "done" => output.exists

\* C33: whenever the persisted job record says done, no batch record of the job
\* is pending or running, also when a retry-batch is requested while another
\* retry of the job is still at work.
C33_DoneHasNoOpenBatch ==
    job.status = "done" =>
        \A i \in BatchIdx : batchRec[i] # NoRec =>
            batchRec[i].status \notin {"pending", "running"}

\* C34: a status callback of a running subscription job changes nothing of the
\* saved record but last_status and last_error: the schedule and the enabled
\* flag stay as the last edit saved them, and the record of a subscription
\* deleted meanwhile is not created again.
C34_CallbackWritesStatusOnly ==
    [][\A id \in SubIds : \A st \in {"running", "summarizing", "done", "failed"} :
          JobCallback(id, st) =>
              /\ subRec'[id].exists = subRec[id].exists
              /\ subRec'[id] = [subRec[id] EXCEPT !.last_status = subRec'[id].last_status,
                                                  !.last_error = subRec'[id].last_error]]_vars

\* the status and the error of the job of a run, as its job record holds them
\* (the record of a job whose run_job has not written yet is taken as running)
StatusOfRun(r) == IF r.stage = "start" THEN "running" ELSE r.stage
ErrorOfRun(r) == IF r.stage = "failed" THEN "set" ELSE "none"

\* the runs of subscription id whose job the record names
NamedRuns(id) ==
    { r \in {subJob[id], subJobB[id]} :
        r.job_id # 0 /\ r.job_id = subRec[id].last_job_id }

\* the record of id shows the status and the error of run r
ShowsRun(id, r) ==
    /\ subRec[id].last_status = StatusOfRun(r)
    /\ subRec[id].last_error = ErrorOfRun(r)

\* the record of id shows a dispatch that failed before a job was created,
\* after the last job of the subscription was started
ShowsFailedDispatch(id) ==
    /\ subRec[id].last_status = "failed"
    /\ subRec[id].last_error = "set"
    /\ \A r \in {subJob[id], subJobB[id]} : r.job_id < fires

\* C35 (as claimed): whenever the record of a subscription names job J, its
\* last_status and last_error are those of job J, also when two runs of the
\* subscription overlap.
C35_StatusIsOfNamedJob ==
    \A id \in SubIds : subRec[id].exists =>
        \A r \in NamedRuns(id) : ShowsRun(id, r)

\* the same but for a record that shows a dispatch that failed before a job
\* was created: this holds with overlapping runs, every write of a run saving
\* the job id, the status and the error together
StatusIsOfNamedJobOrFailedDispatch ==
    \A id \in SubIds : subRec[id].exists =>
        \A r \in NamedRuns(id) : ShowsRun(id, r) \/ ShowsFailedDispatch(id)

\* C36: a batch record says failed only when its attempts are used up
\* (attempts = max_attempts): no reader of the records finds a batch failed
\* that still has outer attempts left.
C36_FailedOnlyWhenExhausted ==
    \A i \in BatchIdx :
        (batchRec[i] # NoRec /\ batchRec[i].status = "failed") =>
            batchRec[i].attempts = batchRec[i].max_attempts

\* C37: every job record has batch_size >= 1 and total_batches =
\* ceil(total_users / batch_size) >= 1, whatever batch_size the create-job
\* request carried, zero and negative values included.
C37_BatchSizePositive ==
    job # NoJob =>
        /\ job.batch_size >= 1
        /\ job.total_batches = CeilDiv(job.total_users, job.batch_size)
        /\ job.total_batches >= 1

\* C38: within one run of the outer retry loop of a batch the saved attempts
\* value is 1 after the first attempt begins, grows by exactly 1 with every
\* further attempt and never exceeds max_attempts = batch_max_retries + 1; once
\* the loop has written succeeded it writes no other status and makes no other
\* external call.
C38_AttemptsCountUpThenStop ==
    /\ [](\A i \in BatchIdx : batchRec[i] # NoRec =>
            /\ batchRec[i].max_attempts = BatchMaxRetries + 1
            /\ batchRec[i].attempts <= batchRec[i].max_attempts)
    /\ [][\A r \in Runners :
            /\ BatchAttemptBegin(r) =>
                  /\ batchRec'[run[r].idx].attempts = run[r].fs.attempts + 1
                  /\ batchRec'[run[r].idx].attempts = run[r].attempt + 1
                  /\ run'[r].fs = batchRec'[run[r].idx]
            /\ run'[r].fs.attempts # run[r].fs.attempts =>
                  BatchAttemptBegin(r) \/ run'[r].fs.attempts = 0
            /\ (run[r].fs.status = "succeeded" /\ run'[r] # run[r]) =>
                  /\ run'[r].pc \in {"done", "idle"}
                  /\ run'[r].fs = run[r].fs \/ run'[r] = IdleRunner]_vars

\* C38 witness: a batch loop has ended succeeded on its last attempt, the
\* record showing attempts = max_attempts and rows saved
C38_Witness ==
    \E r \in Runners :
        /\ run[r].pc = "done"
        /\ run[r].rows # << >>
        /\ batchRec[run[r].idx].status = "succeeded"
        /\ batchRec[run[r].idx].attempts = BatchMaxRetries + 1
        /\ BatchMaxRetries >= 1

====
